---- MODULE Spec2Model ----
(***************************************************************************)
(* Batch migration of the Cipherion client: CipherionClient.migrateEncrypt *)
(* / migrateDecrypt and MigrationHelper.encryptMigration /                 *)
(* decryptMigration, on the JavaScript event loop.                         *)
(*                                                                         *)
(* One action is one run-to-completion piece of JavaScript: the            *)
(* synchronous part of a call up to its first await, one promise reaction  *)
(* job (microtask), one timer callback, or the settlement of one remote    *)
(* call.  Reaction jobs run in FIFO order from the microtask queue.        *)
(***************************************************************************)
EXTENDS Integers, Sequences, FiniteSets, TLC

\* ------------------------------------------------------------------ bounds
\* Largest input array of the concurrent model.
MaxItems == 3

\* ------------------------------------------------------- program constants
DefaultBatchSize == 10
DefaultDelay == 1000
DefaultRetries == 3
BatchSizeCap == 100
RetriesCap == 10
BackoffBase == 1000
JitterRange == 500

Min(a, b) == IF a < b THEN a ELSE b
Max(a, b) == IF a > b THEN a ELSE b

\* An optional value: <<>> is undefined, <<v>> is v.
Undefined == <<>>
Some(v) == <<v>>
\* Destructuring default: `const { x = d } = options`.
OrDefault(opt, d) == IF opt = Undefined THEN d ELSE opt[1]

\* --------------------------------------------------------------- percentage
\* Math.round((processed / total) * 100) on IEEE-754 doubles, for
\* 0 < processed <= total < 2^15.  A double has 53 significant bits; the
\* significands are kept as four limbs of 16 bits, least significant first
\* (the top limb is not reduced).
Limb == 2^16

\* The binary exponent of processed/total: the least e with p * 2^e >= t,
\* so that p/t * 2^e lies in [1, 2).
Exponent(p, t) == CHOOSE e \in 0..15 : p * (2^e) >= t /\ (e = 0 \/ p * (2^(e-1)) < t)

\* x + 1 on limbs.
Increment(X) ==
  LET c1 == IF X[1] + 1 = Limb THEN 1 ELSE 0
      c2 == IF X[2] + c1 = Limb THEN 1 ELSE 0
      c3 == IF X[3] + c2 = Limb THEN 1 ELSE 0
  IN <<(X[1] + 1) % Limb, (X[2] + c1) % Limb, (X[3] + c2) % Limb, X[4] + c3>>

\* fl(p / t): the quotient rounded to nearest, ties to even, as the integer
\* M with fl(p/t) = M * 2^-(e+52) and 2^52 <= M <= 2^53.  Long division of
\* p * 2^(e+52) by t, 16 bits at a time.
Quotient53(p, t) ==
  LET e == Exponent(p, t)
      n3 == p * (2^(e + 4))
      q3 == n3 \div t
      r3 == n3 % t
      q2 == (r3 * Limb) \div t
      r2 == (r3 * Limb) % t
      q1 == (r2 * Limb) \div t
      r1 == (r2 * Limb) % t
      q0 == (r1 * Limb) \div t
      r0 == (r1 * Limb) % t
      M == <<q0, q1, q2, q3>>
  IN IF 2 * r0 > t \/ (2 * r0 = t /\ q0 % 2 = 1) THEN Increment(M) ELSE M

\* The exact product 100 * M.
Times100(M) ==
  LET p0 == 100 * M[1]
      p1 == (100 * M[2]) + (p0 \div Limb)
      p2 == (100 * M[3]) + (p1 \div Limb)
      p3 == (100 * M[4]) + (p2 \div Limb)
  IN <<p0 % Limb, p1 % Limb, p2 % Limb, p3>>

\* An exact integer of 54..64 bits rounded to 53 significant bits, nearest,
\* ties to even.
Round53(P) ==
  LET topBits == CHOOSE n \in 1..16 : 2^(n-1) <= P[4] /\ P[4] < 2^n
      drop == topBits + 48 - 53
      unit == 2^drop
      low == P[1] % unit
      kept == <<P[1] - low, P[2], P[3], P[4]>>
      tie == 2 * low = unit /\ (P[1] \div unit) % 2 = 1
      up == 2 * low > unit \/ tie
      c1 == IF up /\ kept[1] + unit = Limb THEN 1 ELSE 0
      c2 == IF kept[2] + c1 = Limb THEN 1 ELSE 0
      c3 == IF kept[3] + c2 = Limb THEN 1 ELSE 0
  IN IF up THEN <<(kept[1] + unit) % Limb, (kept[2] + c1) % Limb,
                  (kept[3] + c2) % Limb, kept[4] + c3>>
     ELSE kept

\* Math.round(x) = floor(x + 1/2) for x = X * 2^-scale, 52 <= scale: the
\* integer part and the half bit both lie in the top limb (bits 48 and up).
MathRound(X, scale) ==
  (X[4] \div (2^(scale - 48))) + ((X[4] \div (2^(scale - 49))) % 2)

\* A faulty variant of percentageOf: Math.floor in place of Math.round.
percentageFloor(processed, total) == (100 * processed) \div total

\* migration.ts:66-68: Math.round((processed / total) * 100).
percentageOf(processed, total) ==
  IF processed = 0 THEN 0
  ELSE MathRound(Round53(Times100(Quotient53(processed, total))),
                 Exponent(processed, total) + 52)

\* ------------------------------------------------------------------ inputs
\* config.passphrase: empty (none configured) or set.
Passphrases == {"", "correct-horse-battery"}
\* The first argument: an array of 0..MaxItems items, or a value that is not
\* an array.  An item is identified by its 1-based position.
DataArrays ==
  {[isArray |-> FALSE, length |-> 0]} \cup
  {[isArray |-> TRUE, length |-> n] : n \in 0..MaxItems}
\* options.batchSize, options.maxRetries, options.delayBetweenBatches.
BatchSizeOptions == {Some(0), Some(2)}
MaxRetriesOptions == {Some(0), Some(2)}
DelayOptions == {Undefined, Some(0)}
\* options.onProgress / options.onError: not given, a callback that returns,
\* a callback that throws on every invocation.
Callbacks == {"absent", "returns", "throws"}
\* The pairs <<onProgress, onError>> of a call: both of a kind, or only one
\* of the callbacks given.
CallbackPairs ==
  {c \in Callbacks \X Callbacks :
     c[1] = c[2] \/ c \in {<<"absent", "returns">>, <<"returns", "absent">>}}

\* options.exclusionOptions: not given, or an ExclusionOptions object.
ExclusionOptionValues ==
  {Undefined,
   Some([exclude_fields |-> <<"profile.id">>, exclude_patterns |-> <<"*_at">>,
         fail_gracefully |-> TRUE])}
\* The status of what makes a call of client.deepEncrypt / deepDecrypt fail,
\* when the service answers with an internal error.
ServerFaults == {500}

\* ------------------------------------------------------------------- state
VARIABLES
  config,          \* the client's configuration: [passphrase]
  op,              \* "encrypt" (migrateEncrypt) or "decrypt" (migrateDecrypt)
  dataArray,       \* the first argument of the call
  options,         \* the MigrationOptions of the call
  pc,              \* where the migrate call is
  i,               \* the loop variable of the batch loop
  result,          \* the MigrationResult the helper builds
  returned,        \* the value the call resolved with, when it has
  thrown,          \* the error the call rejected with, when it has
  stage,           \* per item: where its promise chain is
  attempt,         \* per item: the loop variable of processXWithRetry
  calls,           \* per item: calls made to client.deepEncrypt/deepDecrypt
  lastError,       \* per item: the attempt whose error lastError holds
  microtasks,      \* the promise reaction jobs queued, oldest first
  running,         \* the user callback being executed, when one is
  onProgressCalls, \* invocations of options.onProgress
  onErrorCalls,    \* invocations of options.onError
  batchDelays,     \* inter-batch timers started
  backoffDelays,   \* retry backoff timers started
  consoleErrors,   \* console.error calls (caught callback exceptions)
  slices,          \* the batches dispatched, in order, as sets of positions
  batchTimers,     \* the delays, in ms, of the inter-batch timers started
  backoffTimer,    \* per item: the delay of its pending backoff timer
  onErrorLog,      \* the arguments of the invocations of options.onError
  settleLog,       \* the items in the order their retry loops ended, and how
  onProgressLog,   \* per invocation of options.onProgress: what it was given
  callLog,         \* per item: the options argument of each call made for it
  failedWith,      \* per item: the status of what made its last failed call fail
  faults,          \* the statuses a call of this run can fail with
  postAt,          \* where the post call of the retrying HttpClient is
  metadata,        \* config.metadata of the request of that call
  sendLog,         \* the requests sent to the server, and their answers
  sleepLog,        \* the retry delays slept
  postOutcome,     \* how the last post call ended, when it has
  postCount,       \* the post calls made
  providedConfig,  \* the argument of new CipherionClient(...)
  env,             \* process.env
  client,          \* the client the constructor returned, when it has
  httpClient,      \* this.httpClient: what it was constructed with
  migrationHelper, \* this.migrationHelper
  initialized,     \* the configuration the client was constructed with
  requests,        \* the HTTP requests sent, in order
  pendingPost,     \* the method awaiting httpClient.post, when one is
  lastCall,        \* the last constructor or method call and how it ended
  other,           \* the locals of the other migration call on the client
  active           \* which of the two calls the locals shown belong to

vars == <<config, op, dataArray, options, pc, i, result, returned, thrown,
          stage, attempt, calls, lastError, microtasks, running,
          onProgressCalls, onErrorCalls, batchDelays, backoffDelays,
          consoleErrors, slices, batchTimers, backoffTimer, onErrorLog,
          settleLog, onProgressLog, callLog, failedWith, faults, postAt, metadata,
          sendLog, sleepLog, postOutcome, postCount, providedConfig, env,
          client, httpClient,
          migrationHelper, initialized, requests, pendingPost, lastCall,
          other, active>>

clientVars == <<providedConfig, env, client, httpClient, migrationHelper,
               initialized, requests, pendingPost, lastCall>>
runVars == <<other, active>>
retryVars == <<postAt, metadata, sendLog, sleepLog, postOutcome, postCount>>
callVars == <<config, op, dataArray, options, faults, clientVars, runVars,
              retryVars>>
counters == <<onProgressCalls, onErrorCalls, batchDelays, backoffDelays, consoleErrors>>
logs == <<slices, batchTimers, backoffTimer, onErrorLog, settleLog,
         onProgressLog, callLog, failedWith>>

Items == 1..dataArray.length

\* ------------------------------------------------------------ pure helpers
\* A faulty variant of safeBatchSize: no upper limit.
safeBatchSizeNoCap(opts) == Max(1, OrDefault(opts.batchSize, DefaultBatchSize))

\* migration.ts:27 / 106: Math.min(Math.max(1, batchSize), 100).
safeBatchSize(opts) ==
  Min(Max(1, OrDefault(opts.batchSize, DefaultBatchSize)), BatchSizeCap)

\* A faulty variant of safeDelay: no delay when none is requested.
safeDelayNoDefault(opts) == Max(0, OrDefault(opts.delayBetweenBatches, 0))

\* A faulty variant of safeDelay: decryptMigration has no default delay.
safeDelayOfDecrypt(opts) ==
  IF op = "decrypt" THEN Max(0, OrDefault(opts.delayBetweenBatches, 0))
  ELSE Max(0, OrDefault(opts.delayBetweenBatches, DefaultDelay))

\* migration.ts:28 / 107: Math.max(0, delayBetweenBatches).
safeDelay(opts) == Max(0, OrDefault(opts.delayBetweenBatches, DefaultDelay))

\* A faulty variant of safeRetries: no lower limit.
safeRetriesNoFloor(opts) ==
  Min(OrDefault(opts.maxRetries, DefaultRetries), RetriesCap)

\* migration.ts:29 / 108: Math.min(Math.max(1, maxRetries), 10).
safeRetries(opts) ==
  Min(Max(1, OrDefault(opts.maxRetries, DefaultRetries)), RetriesCap)

\* A faulty variant of Slice: the last item of the slice is left out.
SliceShort(start, size, len) == (start + 1) .. Min(start + size - 1, len)

\* A faulty variant of Slice: the slice ends one item late.
SliceOneMore(start, size, len) == (start + 1) .. Min(start + size + 1, len)

\* A faulty variant of Slice: the batches are taken from the end of the array.
SliceFromEnd(start, size, len) ==
  (Max(len - (start + size), 0) + 1) .. (len - start)

\* migration.ts:44 / 123: dataArray.slice(start, start + size) as the set of
\* item positions.
Slice(start, size, len) == (start + 1) .. Min(start + size, len)

\* The least and the greatest position of a non-empty slice.
First(slice) == CHOOSE j \in slice : \A k \in slice : j <= k
Last(slice) == CHOOSE j \in slice : \A k \in slice : k <= j

\* The positions of a slice in input order.
InOrder(slice) == [k \in 1..Cardinality(slice) |-> First(slice) + k - 1]

\* The retry loops of the items of a sequence end together: with a value
\* (ok) or by throwing.
Settled(items, ok) == [k \in 1..Len(items) |-> [item |-> items[k], ok |-> ok]]

\* A faulty variant of ExclusionArgument: the options are passed with the
\* first attempt only.
ExclusionArgumentFirstOnly(opts, att) ==
  IF att = 1 THEN opts.exclusionOptions ELSE Undefined

\* migration.ts:23, 46, 178 / 102, 125, 203: the second argument of the
\* call client.deepEncrypt(data, exclusionOptions) of attempt att, the
\* value destructured from the options of the migration.
ExclusionArgument(opts, att) == opts.exclusionOptions

\* CipherionError.ts:111-116: isRetryable() of an error with this status.
isRetryable(statusCode) ==
  \/ statusCode = 0
  \/ statusCode = 429
  \/ (statusCode >= 500 /\ statusCode < 600)

\* migration.ts:175 / 200: the condition of the retry loop, attempt <=
\* maxRetries.
LoopContinues(att, maxRetries) == att <= maxRetries

\* migration.ts:31-41 / 110-120.
InitialResult(len) ==
  [successful |-> <<>>, failed |-> <<>>,
   summary |-> [total |-> len, processed |-> 0, successful |-> 0,
                failed |-> 0, percentage |-> 0]]

\* A faulty variant of EmptyResult: the summary the helper starts from.
EmptyResultPercentZero == InitialResult(0)

\* CipherionClient.ts:379-389 / 449-459.
EmptyResult ==
  [successful |-> <<>>, failed |-> <<>>,
   summary |-> [total |-> 0, processed |-> 0, successful |-> 0,
                failed |-> 0, percentage |-> 100]]

NoResult == InitialResult(0)

CipherionError(message, statusCode) == [message |-> message, statusCode |-> statusCode]

\* A faulty variant of Preflight: the passphrase check is missing.
PreflightNoPassphraseCheck(passphrase, data, what) ==
  IF ~data.isArray
  THEN Some(CipherionError(what, 400))
  ELSE Undefined

\* CipherionClient.ts:367-375 / 437-445: the error thrown before anything
\* else is done, or Undefined.
Preflight(passphrase, data, what) ==
  IF passphrase = ""
  THEN Some(CipherionError("Passphrase is required for migration", 400))
  ELSE IF ~data.isArray
  THEN Some(CipherionError(what, 400))
  ELSE Undefined

ArrayName == IF op = "encrypt" THEN "dataArray must be an array"
             ELSE "encryptedArray must be an array"

\* A faulty variant of ThenUpdate: the sequence grows, the counter does not.
ThenUpdateNoCount(res, value) ==
  [res EXCEPT !.successful = Append(@, value)]

\* migration.ts:47-50 / 126-129: the .then handler.
ThenUpdate(res, value) ==
  [res EXCEPT !.successful = Append(@, value),
              !.summary.successful = @ + 1]

\* A faulty variant of CatchUpdate: the failure is counted but not recorded.
CatchUpdateNoRecord(res, item, error) ==
  [res EXCEPT !.summary.failed = @ + 1]

\* A faulty variant of CatchUpdate: the failure is recorded but not counted.
CatchUpdateNoCount(res, item, error) ==
  [res EXCEPT !.failed = Append(@, [item |-> item, error |-> error])]

\* migration.ts:51-54 / 130-133: the .catch handler up to the callback.
CatchUpdate(res, item, error) ==
  [res EXCEPT !.failed = Append(@, [item |-> item, error |-> error]),
              !.summary.failed = @ + 1]

\* A faulty variant of FinallyUpdate: the item is not counted as processed.
FinallyUpdateNoCount(res) ==
  [res EXCEPT !.summary.percentage =
                 percentageOf(res.summary.processed, res.summary.total)]

\* migration.ts:64-68 / 142-146: the .finally handler up to the callback.
FinallyUpdate(res) ==
  [res EXCEPT !.summary.processed = @ + 1,
              !.summary.percentage =
                 percentageOf(res.summary.processed + 1, res.summary.total)]

\* A faulty variant of AllSettled: the barrier waits for the calls only, not for
\* the handlers chained on them.
CallsSettled(batch, stg) == \A j \in batch : stg[j] \notin {"idle", "calling", "backoff"}

\* A faulty variant of AllSettled: the barrier opens with the first chain
\* that settles, as Promise.race would.
AnySettled(batch, stg) == \E j \in batch : stg[j] = "done"

\* migration.ts:80 / 157: Promise.allSettled(batchPromises) has resolved:
\* every chain of the batch has run its .finally handler.
AllSettled(batch, stg) == \A j \in batch : stg[j] = "done"

\* No post has been called.
RetryingClientIdle ==
  /\ postAt = "idle"
  /\ metadata = Undefined
  /\ sendLog = <<>>
  /\ sleepLog = <<>>
  /\ postOutcome = Undefined
  /\ postCount = 0

\* A migration starts on a client that is constructed and at rest; of its
\* fields only config.passphrase plays a part in it.
ClientConstructed ==
  /\ providedConfig = Undefined
  /\ env = Undefined
  /\ client = Some("CipherionClient")
  /\ httpClient = Undefined
  /\ migrationHelper = Some("MigrationHelper")
  /\ initialized = Undefined
  /\ requests = <<>>
  /\ pendingPost = Undefined
  /\ lastCall = Undefined
  /\ RetryingClientIdle

\* A migration starts on a client that is constructed and at rest, and it
\* is the only migration on it.
ClientAtRest ==
  /\ ClientConstructed
  /\ other = Undefined
  /\ active = 1

\* -------------------------------------------------------------------- Init
Init ==
  /\ config \in [passphrase : Passphrases]
  /\ op \in {"encrypt", "decrypt"}
  /\ dataArray \in DataArrays
  /\ options \in {[batchSize |-> b, maxRetries |-> r,
                   delayBetweenBatches |-> d,
                   onProgress |-> c[1], onError |-> c[2],
                   exclusionOptions |-> Undefined] :
                    b \in BatchSizeOptions, r \in MaxRetriesOptions,
                    d \in DelayOptions, c \in CallbackPairs}
  /\ pc = "called"
  /\ i = 0
  /\ result = NoResult
  /\ returned = Undefined
  /\ thrown = Undefined
  /\ stage = [j \in Items |-> "idle"]
  /\ attempt = [j \in Items |-> 0]
  /\ calls = [j \in Items |-> 0]
  /\ lastError = [j \in Items |-> 0]
  /\ microtasks = <<>>
  /\ running = Undefined
  /\ onProgressCalls = 0
  /\ onErrorCalls = 0
  /\ batchDelays = 0
  /\ backoffDelays = 0
  /\ consoleErrors = 0
  /\ slices = <<>>
  /\ batchTimers = <<>>
  /\ backoffTimer = [j \in Items |-> Undefined]
  /\ onErrorLog = <<>>
  /\ settleLog = <<>>
  /\ onProgressLog = <<>>
  /\ callLog = [j \in Items |-> <<>>]
  /\ failedWith = [j \in Items |-> Undefined]
  /\ faults = ServerFaults
  /\ ClientAtRest

\* --------------------------------------------------------- Batch Scheduler
\* A faulty variant of DispatchBatch: the items are awaited one by one, so only the
\* first call of the batch is made before the scheduler waits.
DispatchSerial(batch) ==
  LET first == {j \in batch : \A k \in batch : j <= k} IN
  /\ stage' = [j \in Items |-> IF j \in first THEN "calling" ELSE stage[j]]
  /\ attempt' = [j \in Items |-> IF j \in first THEN 1 ELSE attempt[j]]
  /\ calls' = [j \in Items |-> IF j \in first THEN calls[j] + 1 ELSE calls[j]]
  /\ slices' = Append(slices, batch)
  /\ callLog' = [j \in Items |->
                   IF j \in first
                   THEN Append(callLog[j], ExclusionArgument(options, 1))
                   ELSE callLog[j]]
  /\ microtasks' = microtasks
  /\ settleLog' = settleLog

\* migration.ts:44-78 / 123-155: batch.map(...) calls processXWithRetry for
\* every item of the slice; each runs synchronously up to its first await,
\* which is the call client.deepEncrypt / deepDecrypt of attempt 1.  (Were
\* the retry loop not entered, processXWithRetry would throw at once and the
\* reactions of the rejected promises would be queued.)
DispatchBatch(batch) ==
  LET enters == LoopContinues(1, safeRetries(options)) IN
  /\ stage' = [j \in Items |->
                 IF j \in batch
                 THEN IF enters THEN "calling" ELSE "rejected"
                 ELSE stage[j]]
  /\ attempt' = [j \in Items |-> IF j \in batch THEN 1 ELSE attempt[j]]
  /\ calls' = [j \in Items |->
                 IF j \in batch /\ enters THEN calls[j] + 1 ELSE calls[j]]
  /\ slices' = Append(slices, batch)
  /\ callLog' = [j \in Items |->
                   IF j \in batch /\ enters
                   THEN Append(callLog[j], ExclusionArgument(options, 1))
                   ELSE callLog[j]]
  /\ microtasks' = IF enters THEN microtasks ELSE microtasks \o InOrder(batch)
  /\ settleLog' = IF enters THEN settleLog
                  ELSE settleLog \o Settled(InOrder(batch), FALSE)

\* CipherionClient.ts:367-375 / 437-445: a pre-flight check fails.
MigrateRejects ==
  /\ pc = "called"
  /\ Preflight(config.passphrase, dataArray, ArrayName) # Undefined
  /\ thrown' = Preflight(config.passphrase, dataArray, ArrayName)
  /\ pc' = "rejected"
  /\ UNCHANGED <<callVars, logs, i, result, returned, stage, attempt, calls,
                 lastError, microtasks, running, counters>>

\* CipherionClient.ts:377-390 / 447-460: the empty array.
MigrateEmpty ==
  /\ pc = "called"
  /\ Preflight(config.passphrase, dataArray, ArrayName) = Undefined
  /\ dataArray.length = 0
  /\ returned' = Some(EmptyResult)
  /\ pc' = "resolved"
  /\ UNCHANGED <<callVars, logs, i, result, thrown, stage, attempt, calls,
                 lastError, microtasks, running, counters>>

\* CipherionClient.ts:399-404 and migration.ts:12-80 (91-157): the call
\* enters the helper, which builds the result, dispatches the first batch
\* and awaits it.
MigrateStarts ==
  /\ pc = "called"
  /\ Preflight(config.passphrase, dataArray, ArrayName) = Undefined
  /\ dataArray.length # 0
  /\ result' = InitialResult(dataArray.length)
  /\ i' = 0
  /\ DispatchBatch(Slice(0, safeBatchSize(options), dataArray.length))
  /\ pc' = "awaitBatch"
  /\ UNCHANGED <<callVars, onProgressLog, failedWith, batchTimers, backoffTimer,
                 onErrorLog, returned, thrown, lastError, running, counters>>

CurrentBatch == Slice(i, safeBatchSize(options), dataArray.length)

BatchResumes ==
  /\ pc = "awaitBatch"
  /\ running = Undefined
  /\ AllSettled(CurrentBatch, stage)

\* migration.ts:83-85 / 160-162: a batch has settled, more items remain and
\* the delay is positive: this.delay(safeDelay) is awaited.
BatchSettledDelay ==
  /\ BatchResumes
  /\ i + safeBatchSize(options) < dataArray.length
  /\ safeDelay(options) > 0
  /\ batchDelays' = batchDelays + 1
  /\ batchTimers' = Append(batchTimers, safeDelay(options))
  /\ pc' = "delay"
  /\ UNCHANGED <<callVars, onProgressLog, callLog, failedWith, settleLog, slices, backoffTimer,
                 onErrorLog, i, result, returned, thrown, stage, attempt,
                 calls, lastError, microtasks, running, onProgressCalls,
                 onErrorCalls, backoffDelays, consoleErrors>>

\* migration.ts:43-80 / 122-157: a batch has settled, more items remain and
\* the delay is 0: the loop goes on to the next batch at once.
BatchSettledNext ==
  /\ BatchResumes
  /\ i + safeBatchSize(options) < dataArray.length
  /\ ~(safeDelay(options) > 0)
  /\ i' = i + safeBatchSize(options)
  /\ DispatchBatch(Slice(i + safeBatchSize(options), safeBatchSize(options),
                         dataArray.length))
  /\ UNCHANGED <<callVars, onProgressLog, failedWith, batchTimers, backoffTimer,
                 onErrorLog, pc, result, returned, thrown, lastError, running,
                 counters>>

\* migration.ts:43, 88 / 122, 165 and CipherionClient.ts:416 / 486: the last
\* batch has settled; the helper returns result and the client returns it.
BatchSettledReturn ==
  /\ BatchResumes
  /\ ~(i + safeBatchSize(options) < dataArray.length)
  /\ i' = i + safeBatchSize(options)
  /\ returned' = Some(result)
  /\ pc' = "resolved"
  /\ UNCHANGED <<callVars, logs, result, thrown, stage, attempt, calls,
                 lastError, microtasks, running, counters>>

\* migration.ts:84, 218-220 / 161: the inter-batch timer fires (a timer
\* callback runs only when no reaction job is queued), the loop goes on.
DelayFires ==
  /\ pc = "delay"
  /\ running = Undefined
  /\ microtasks = <<>>
  /\ i' = i + safeBatchSize(options)
  /\ DispatchBatch(Slice(i + safeBatchSize(options), safeBatchSize(options),
                         dataArray.length))
  /\ pc' = "awaitBatch"
  /\ UNCHANGED <<callVars, onProgressLog, failedWith, batchTimers, backoffTimer,
                 onErrorLog, result, returned, thrown, lastError, running,
                 counters>>

\* ---------------------------------------------------------- Item Processor
\* A faulty variant of ShouldRetry: the last attempt is never made.
ShouldRetryOneLess(att, maxRetries) == att + 1 < maxRetries

\* migration.ts:181 / 206: if (attempt < maxRetries).
ShouldRetry(att, maxRetries) == att < maxRetries

\* A delay in ms that need not be whole: [whole |-> w, gap |-> g] is
\* w - g * 2^-44 ms, a double just below the integer w when g > 0.
Ms(w) == [whole |-> w, gap |-> 0]

\* migration.ts:184 / 209: Math.random() * 500 for a double Math.random()
\* in [0, 1): the least value, 0, and two of the greatest, the doubles
\* 500 - g * 2^-44 just below 500 (from Math.random() = 1 - g * 2^-53;
\* doubles in [256, 512) are 2^-44 apart).
Jitters == {Ms(0)} \cup {[whole |-> JitterRange, gap |-> g] : g \in 2..3}

FloorLog2(c) == CHOOSE e \in 0..30 : 2^e <= c /\ c < 2^(e + 1)

\* The distance between two neighbouring doubles in the binade of c >= 256,
\* in units of 2^-44.
Ulp(c) == 2^(FloorLog2(c) - 8)

\* c - g * 2^-44 rounded to a double, nearest, ties to even, as the gap
\* below c; c is an integer below 2^14 and not a power of two, so the
\* significand of c - q * Ulp(c) has the parity of q.
RoundGap(g, c) ==
  LET q == g \div Ulp(c)
      r == g % Ulp(c)
  IN IF 2 * r < Ulp(c) THEN q * Ulp(c)
     ELSE IF 2 * r > Ulp(c) THEN (q + 1) * Ulp(c)
     ELSE IF q % 2 = 0 THEN q * Ulp(c) ELSE (q + 1) * Ulp(c)

\* A faulty variant of BackoffDelay: the base delay doubles with each attempt.
BackoffDelayExponential(att, jitter) ==
  LET c == (BackoffBase * (2^(att - 1))) + jitter.whole
  IN [whole |-> c,
      gap |-> IF jitter.gap = 0 THEN 0 ELSE RoundGap(jitter.gap, c)]

\* migration.ts:183-185 / 208-210: baseDelay + jitter, a sum of doubles.
BackoffDelay(att, jitter) ==
  LET c == (BackoffBase * att) + jitter.whole
  IN [whole |-> c,
      gap |-> IF jitter.gap = 0 THEN 0 ELSE RoundGap(jitter.gap, c)]

\* migration.ts:178 / 203: the awaited call resolves; processXWithRetry
\* returns its value, which queues the .then reaction.
RemoteResolves(j) ==
  /\ running = Undefined
  /\ stage[j] = "calling"
  /\ stage' = [stage EXCEPT ![j] = "fulfilled"]
  /\ microtasks' = Append(microtasks, j)
  /\ settleLog' = Append(settleLog, [item |-> j, ok |-> TRUE])
  /\ UNCHANGED <<callVars, onProgressLog, callLog, failedWith, slices, batchTimers, backoffTimer,
                 onErrorLog, pc, i, result, returned, thrown, attempt, calls,
                 lastError, running, counters>>

\* A faulty variant of RemoteRejectsRetry: the retry is made only when the
\* error is retryable; after any other error the loop ends and the error is
\* thrown.
RemoteRejectsRetryIfRetryable(j) ==
  /\ running = Undefined
  /\ stage[j] = "calling"
  /\ ShouldRetry(attempt[j], safeRetries(options))
  /\ lastError' = [lastError EXCEPT ![j] = attempt[j]]
  /\ \E status \in faults :
       /\ failedWith' = [failedWith EXCEPT ![j] = Some(status)]
       /\ IF isRetryable(status)
          THEN /\ stage' = [stage EXCEPT ![j] = "backoff"]
               /\ backoffDelays' = backoffDelays + 1
               /\ \E jitter \in Jitters :
                    backoffTimer' = [backoffTimer EXCEPT
                                       ![j] = Some(BackoffDelay(attempt[j], jitter))]
               /\ UNCHANGED <<microtasks, settleLog>>
          ELSE /\ stage' = [stage EXCEPT ![j] = "rejected"]
               /\ microtasks' = Append(microtasks, j)
               /\ settleLog' = Append(settleLog, [item |-> j, ok |-> FALSE])
               /\ UNCHANGED <<backoffDelays, backoffTimer>>
  /\ UNCHANGED <<callVars, onProgressLog, callLog, slices, batchTimers,
                 onErrorLog, pc, i, result, returned, thrown, attempt, calls,
                 running, onProgressCalls, onErrorCalls, batchDelays,
                 consoleErrors>>

\* migration.ts:179-186 / 204-211: the awaited call rejects and attempts
\* remain: the backoff timer is started.
RemoteRejectsRetry(j) ==
  /\ running = Undefined
  /\ stage[j] = "calling"
  /\ ShouldRetry(attempt[j], safeRetries(options))
  /\ lastError' = [lastError EXCEPT ![j] = attempt[j]]
  /\ \E status \in faults : failedWith' = [failedWith EXCEPT ![j] = Some(status)]
  /\ stage' = [stage EXCEPT ![j] = "backoff"]
  /\ backoffDelays' = backoffDelays + 1
  /\ \E jitter \in Jitters :
       backoffTimer' = [backoffTimer EXCEPT
                          ![j] = Some(BackoffDelay(attempt[j], jitter))]
  /\ UNCHANGED <<callVars, onProgressLog, callLog, settleLog, slices, batchTimers,
                 onErrorLog, pc, i, result, returned, thrown, attempt, calls,
                 microtasks, running, onProgressCalls, onErrorCalls,
                 batchDelays, consoleErrors>>

\* A faulty variant of RemoteRejectsFinal: the error of the last attempt is
\* not kept, the error thrown is the one before.
RemoteRejectsFinalKeepsError(j) ==
  /\ running = Undefined
  /\ stage[j] = "calling"
  /\ ~ShouldRetry(attempt[j], safeRetries(options))
  /\ stage' = [stage EXCEPT ![j] = "rejected"]
  /\ microtasks' = Append(microtasks, j)
  /\ settleLog' = Append(settleLog, [item |-> j, ok |-> FALSE])
  /\ UNCHANGED <<callVars, onProgressLog, callLog, failedWith, slices, batchTimers, backoffTimer,
                 onErrorLog, pc, i, result, returned, thrown, attempt, calls,
                 lastError, running, counters>>

\* migration.ts:179-190 / 204-215: the awaited call rejects on the last
\* attempt: the loop ends and lastError is thrown, which queues the reaction
\* of the .then (a pass-through of the rejection).
RemoteRejectsFinal(j) ==
  /\ running = Undefined
  /\ stage[j] = "calling"
  /\ ~ShouldRetry(attempt[j], safeRetries(options))
  /\ lastError' = [lastError EXCEPT ![j] = attempt[j]]
  /\ \E status \in faults : failedWith' = [failedWith EXCEPT ![j] = Some(status)]
  /\ stage' = [stage EXCEPT ![j] = "rejected"]
  /\ microtasks' = Append(microtasks, j)
  /\ settleLog' = Append(settleLog, [item |-> j, ok |-> FALSE])
  /\ UNCHANGED <<callVars, onProgressLog, callLog, slices, batchTimers, backoffTimer,
                 onErrorLog, pc, i, result, returned, thrown, attempt, calls,
                 running, counters>>

\* migration.ts:175-178, 185 / 200-203, 210: the backoff timer fires, the
\* loop makes the next attempt.
BackoffFires(j) ==
  /\ running = Undefined
  /\ microtasks = <<>>
  /\ stage[j] = "backoff"
  /\ backoffTimer' = [backoffTimer EXCEPT ![j] = Undefined]
  /\ attempt' = [attempt EXCEPT ![j] = @ + 1]
  /\ IF LoopContinues(attempt[j] + 1, safeRetries(options))
     THEN /\ calls' = [calls EXCEPT ![j] = @ + 1]
          /\ callLog' = [callLog EXCEPT ![j] =
               Append(@, ExclusionArgument(options, attempt[j] + 1))]
          /\ stage' = [stage EXCEPT ![j] = "calling"]
          /\ UNCHANGED <<microtasks, settleLog>>
     ELSE /\ stage' = [stage EXCEPT ![j] = "rejected"]
          /\ microtasks' = Append(microtasks, j)
          /\ settleLog' = Append(settleLog, [item |-> j, ok |-> FALSE])
          /\ UNCHANGED <<calls, callLog>>
  /\ UNCHANGED <<callVars, onProgressLog, failedWith, slices, batchTimers, onErrorLog, pc,
                 i, result, returned, thrown, lastError, running, counters>>

\* ------------------------------------- Result Aggregator, Callback Dispatch
\* The reaction job at the head of the microtask queue belongs to item j.
NextJob(j) ==
  /\ running = Undefined
  /\ microtasks # <<>>
  /\ Head(microtasks) = j

\* migration.ts:47-50 / 126-129: the .then handler of a fulfilled call.
ThenHandler(j) ==
  /\ NextJob(j)
  /\ stage[j] = "fulfilled"
  /\ result' = ThenUpdate(result, j)
  /\ stage' = [stage EXCEPT ![j] = "thenRan"]
  /\ microtasks' = Append(Tail(microtasks), j)
  /\ UNCHANGED <<callVars, logs, pc, i, returned, thrown, attempt, calls,
                 lastError, running, counters>>

\* A faulty variant of CatchPassThrough: the .catch handler runs after the
\* .then handler of a fulfilled call, too.
CatchAfterThen(j) ==
  /\ NextJob(j)
  /\ stage[j] = "thenRan"
  /\ stage' = [stage EXCEPT ![j] = "toCatch"]
  /\ microtasks' = Append(Tail(microtasks), j)
  /\ UNCHANGED <<callVars, logs, pc, i, result, returned, thrown, attempt,
                 calls, lastError, running, counters>>

\* migration.ts:51 / 130: the .catch of a fulfilled chain passes the value on.
CatchPassThrough(j) ==
  /\ NextJob(j)
  /\ stage[j] = "thenRan"
  /\ stage' = [stage EXCEPT ![j] = "toFinally"]
  /\ microtasks' = Append(Tail(microtasks), j)
  /\ UNCHANGED <<callVars, logs, pc, i, result, returned, thrown, attempt,
                 calls, lastError, running, counters>>

\* migration.ts:47 / 126: the .then of a rejected call passes the error on.
ThenPassThrough(j) ==
  /\ NextJob(j)
  /\ stage[j] = "rejected"
  /\ stage' = [stage EXCEPT ![j] = "toCatch"]
  /\ microtasks' = Append(Tail(microtasks), j)
  /\ UNCHANGED <<callVars, logs, pc, i, result, returned, thrown, attempt,
                 calls, lastError, running, counters>>

\* migration.ts:51-63 / 130-141: the .catch handler, without onError.
CatchHandler(j) ==
  /\ NextJob(j)
  /\ stage[j] = "toCatch"
  /\ options.onError = "absent"
  /\ result' = CatchUpdate(result, j, lastError[j])
  /\ stage' = [stage EXCEPT ![j] = "toFinally"]
  /\ microtasks' = Append(Tail(microtasks), j)
  /\ UNCHANGED <<callVars, logs, pc, i, returned, thrown, attempt, calls,
                 lastError, running, counters>>

\* A faulty variant of CatchHandlerOnError: onError is called before the
\* failure is recorded and counted.
CatchHandlerOnErrorFirst(j) ==
  /\ NextJob(j)
  /\ stage[j] = "toCatch"
  /\ options.onError # "absent"
  /\ result' = result
  /\ stage' = [stage EXCEPT ![j] = "inOnError"]
  /\ running' = Some([callback |-> "onError", item |-> j, error |-> lastError[j]])
  /\ onErrorCalls' = onErrorCalls + 1
  /\ onErrorLog' = Append(onErrorLog, [error |-> lastError[j], item |-> j])
  /\ microtasks' = Tail(microtasks)
  /\ UNCHANGED <<callVars, onProgressLog, callLog, failedWith, settleLog, slices, batchTimers,
                 backoffTimer, pc, i, returned, thrown, attempt, calls,
                 lastError, onProgressCalls, batchDelays, backoffDelays,
                 consoleErrors>>

\* migration.ts:51-57 / 130-136: the .catch handler calls onError.
CatchHandlerOnError(j) ==
  /\ NextJob(j)
  /\ stage[j] = "toCatch"
  /\ options.onError # "absent"
  /\ result' = CatchUpdate(result, j, lastError[j])
  /\ stage' = [stage EXCEPT ![j] = "inOnError"]
  /\ running' = Some([callback |-> "onError", item |-> j, error |-> lastError[j]])
  /\ onErrorCalls' = onErrorCalls + 1
  /\ onErrorLog' = Append(onErrorLog, [error |-> lastError[j], item |-> j])
  /\ microtasks' = Tail(microtasks)
  /\ UNCHANGED <<callVars, onProgressLog, callLog, failedWith, settleLog, slices, batchTimers,
                 backoffTimer, pc, i, returned, thrown, attempt, calls,
                 lastError, onProgressCalls, batchDelays, backoffDelays,
                 consoleErrors>>

\* A faulty variant of OnErrorEnds: an exception of onError ends the chain
\* of the item, its .finally handler does not run.
OnErrorEndsChain(j) ==
  /\ running # Undefined
  /\ running[1].callback = "onError"
  /\ running[1].item = j
  /\ consoleErrors' = IF options.onError = "throws" THEN consoleErrors + 1
                      ELSE consoleErrors
  /\ running' = Undefined
  /\ IF options.onError = "throws"
     THEN /\ stage' = [stage EXCEPT ![j] = "done"]
          /\ UNCHANGED microtasks
     ELSE /\ stage' = [stage EXCEPT ![j] = "toFinally"]
          /\ microtasks' = Append(microtasks, j)
  /\ UNCHANGED <<callVars, logs, pc, i, result, returned, thrown, attempt,
                 calls, lastError, onProgressCalls, onErrorCalls, batchDelays,
                 backoffDelays>>

\* migration.ts:57-62 / 136-140: onError returns or throws; a throw is
\* caught and logged.  The handler ends, which queues the .finally reaction.
OnErrorEnds(j) ==
  /\ running # Undefined
  /\ running[1].callback = "onError"
  /\ running[1].item = j
  /\ consoleErrors' = IF options.onError = "throws" THEN consoleErrors + 1
                      ELSE consoleErrors
  /\ running' = Undefined
  /\ stage' = [stage EXCEPT ![j] = "toFinally"]
  /\ microtasks' = Append(microtasks, j)
  /\ UNCHANGED <<callVars, logs, pc, i, result, returned, thrown, attempt,
                 calls, lastError, onProgressCalls, onErrorCalls, batchDelays,
                 backoffDelays>>

\* What a progress callback reads of the summary it is given: how far the
\* run is.
Progress(summary) ==
  [total |-> summary.total, processed |-> summary.processed,
   percentage |-> summary.percentage]

\* migration.ts:71 / 149: onProgress(result.summary) in the .finally handler
\* of item j.  The argument is the object result.summary itself, not a copy
\* of it; `seen` is what the callback read when it was entered.
Given(j, summary) ==
  [item |-> j, argument |-> "result.summary", seen |-> Progress(summary)]

\* What the object an invocation of onProgress was given holds now: the
\* argument is result.summary itself, which the handlers go on writing to.
HoldsNow(given) ==
  IF given.argument = "result.summary" THEN Progress(result.summary)
  ELSE given.seen

\* The reaction job of the .finally of item j is the next job to run.
FinallyDue(j) == NextJob(j) /\ stage[j] = "toFinally"

\* migration.ts:64-77 / 142-154: the .finally handler, without onProgress.
FinallyHandler(j) ==
  /\ FinallyDue(j)
  /\ options.onProgress = "absent"
  /\ result' = FinallyUpdate(result)
  /\ stage' = [stage EXCEPT ![j] = "done"]
  /\ microtasks' = Tail(microtasks)
  /\ UNCHANGED <<callVars, logs, pc, i, returned, thrown, attempt, calls,
                 lastError, running, counters>>

\* A faulty variant of FinallyHandlerOnProgress: onProgress is called before
\* the item is counted.
FinallyHandlerProgressFirst(j) ==
  /\ FinallyDue(j)
  /\ options.onProgress # "absent"
  /\ result' = FinallyUpdate(result)
  /\ stage' = [stage EXCEPT ![j] = "inOnProgress"]
  /\ running' = Some([callback |-> "onProgress", item |-> j, error |-> 0])
  /\ onProgressCalls' = onProgressCalls + 1
  /\ onProgressLog' = Append(onProgressLog, Given(j, result.summary))
  /\ microtasks' = Tail(microtasks)
  /\ UNCHANGED <<callVars, callLog, failedWith, slices, batchTimers, backoffTimer, onErrorLog,
                 settleLog, pc, i, returned, thrown, attempt, calls,
                 lastError, onErrorCalls, batchDelays, backoffDelays,
                 consoleErrors>>

\* migration.ts:64-71 / 142-149: the .finally handler counts the item, then
\* calls onProgress with result.summary.
FinallyHandlerOnProgress(j) ==
  /\ FinallyDue(j)
  /\ options.onProgress # "absent"
  /\ result' = FinallyUpdate(result)
  /\ stage' = [stage EXCEPT ![j] = "inOnProgress"]
  /\ running' = Some([callback |-> "onProgress", item |-> j, error |-> 0])
  /\ onProgressCalls' = onProgressCalls + 1
  /\ onProgressLog' = Append(onProgressLog,
                             Given(j, FinallyUpdate(result).summary))
  /\ microtasks' = Tail(microtasks)
  /\ UNCHANGED <<callVars, callLog, failedWith, slices, batchTimers, backoffTimer, onErrorLog,
                 settleLog, pc, i, returned, thrown, attempt, calls,
                 lastError, onErrorCalls, batchDelays, backoffDelays,
                 consoleErrors>>

\* migration.ts:71-76 / 149-153: onProgress returns or throws; a throw is
\* caught and logged.  The chain of the item has settled.
OnProgressEnds(j) ==
  /\ running # Undefined
  /\ running[1].callback = "onProgress"
  /\ running[1].item = j
  /\ consoleErrors' = IF options.onProgress = "throws" THEN consoleErrors + 1
                      ELSE consoleErrors
  /\ running' = Undefined
  /\ stage' = [stage EXCEPT ![j] = "done"]
  /\ UNCHANGED <<callVars, logs, pc, i, result, returned, thrown, attempt,
                 calls, lastError, microtasks, onProgressCalls, onErrorCalls,
                 batchDelays, backoffDelays>>

\* -------------------------------------------------------------------- Next
Next ==
  \/ MigrateRejects
  \/ MigrateEmpty
  \/ MigrateStarts
  \/ BatchSettledDelay
  \/ BatchSettledNext
  \/ BatchSettledReturn
  \/ DelayFires
  \/ \E j \in Items : RemoteResolves(j)
  \/ \E j \in Items : RemoteRejectsRetry(j)
  \/ \E j \in Items : RemoteRejectsFinal(j)
  \/ \E j \in Items : BackoffFires(j)
  \/ \E j \in Items : ThenHandler(j)
  \/ \E j \in Items : CatchPassThrough(j)
  \/ \E j \in Items : ThenPassThrough(j)
  \/ \E j \in Items : CatchHandler(j)
  \/ \E j \in Items : CatchHandlerOnError(j)
  \/ \E j \in Items : OnErrorEnds(j)
  \/ \E j \in Items : FinallyHandler(j)
  \/ \E j \in Items : FinallyHandlerOnProgress(j)
  \/ \E j \in Items : OnProgressEnds(j)

Spec == Init /\ [][Next]_vars

\* ------------------------------------------------------ the fair migration
\* The migrations of Spec over up to MaxLiveItems items, on an event loop
\* that keeps running: a reaction job that is queued is run, a callback that
\* was entered returns or throws, a timer that was started fires and a
\* remote call that was made settles.
MaxLiveItems == 2

InitLive == Init /\ dataArray.length <= MaxLiveItems

\* Every step but the two .finally handlers: the start of the call, the
\* continuations of the batch loop, the timers, the settlement of the remote
\* calls, the .then and .catch reaction jobs and the return of a callback.
Turn ==
  \/ MigrateRejects \/ MigrateEmpty \/ MigrateStarts
  \/ BatchSettledDelay \/ BatchSettledNext \/ BatchSettledReturn
  \/ DelayFires
  \/ \E j \in Items :
       \/ RemoteResolves(j) \/ RemoteRejectsRetry(j) \/ RemoteRejectsFinal(j)
       \/ BackoffFires(j)
       \/ ThenHandler(j) \/ CatchPassThrough(j) \/ ThenPassThrough(j)
       \/ CatchHandler(j) \/ CatchHandlerOnError(j)
       \/ OnErrorEnds(j) \/ OnProgressEnds(j)

\* The .finally reaction job at the head of the queue is taken off it: the
\* step FinallyHandler or FinallyHandlerOnProgress, as seen on the queue.
FinallyJobRuns ==
  \E j \in Items : FinallyDue(j) /\ microtasks' = Tail(microtasks)

SpecLive ==
  /\ InitLive
  /\ [][Next]_vars
  /\ WF_vars(Turn)
  /\ WF_microtasks(FinallyJobRuns)

\* ------------------------------------------------------ the serial migration
\* A long migration with batchSize 1, maxRetries 1, no delay and no
\* callbacks, against a remote operation that fails for the items at odd
\* indices and succeeds for the others.  The items settle one at a time, and
\* one step is everything between two dispatches: the call settles, the
\* handlers of the item run, the loop goes on to the next item or returns.
MaxSerialItems == 201

SerialOptions ==
  [batchSize |-> Some(1), maxRetries |-> Some(1),
   delayBetweenBatches |-> Some(0), onProgress |-> "absent",
   onError |-> "absent", exclusionOptions |-> Undefined]

\* The remote operation of the serial migration: the item at 0-based index
\* j - 1 fails when that index is odd.
RemoteFails(j) == (j - 1) % 2 = 1

InitSerial ==
  /\ config = [passphrase |-> "correct-horse-battery"]
  /\ op \in {"encrypt", "decrypt"}
  /\ dataArray \in {[isArray |-> TRUE, length |-> n] : n \in 1..MaxSerialItems}
  /\ options = SerialOptions
  /\ pc = "called"
  /\ i = 0
  /\ result = NoResult
  /\ returned = Undefined
  /\ thrown = Undefined
  /\ stage = [j \in Items |-> "idle"]
  /\ attempt = [j \in Items |-> 0]
  /\ calls = [j \in Items |-> 0]
  /\ lastError = [j \in Items |-> 0]
  /\ microtasks = <<>>
  /\ running = Undefined
  /\ onProgressCalls = 0
  /\ onErrorCalls = 0
  /\ batchDelays = 0
  /\ backoffDelays = 0
  /\ consoleErrors = 0
  /\ slices = <<>>
  /\ batchTimers = <<>>
  /\ backoffTimer = [j \in Items |-> Undefined]
  /\ onErrorLog = <<>>
  /\ settleLog = <<>>
  /\ onProgressLog = <<>>
  /\ callLog = [j \in Items |-> <<>>]
  /\ failedWith = [j \in Items |-> Undefined]
  /\ faults = ServerFaults
  /\ ClientAtRest

\* migration.ts:64-88 / 142-165: the .finally handler of item i + 1 runs on
\* `settled`, the result its .then or .catch handler left; the batch of one
\* has settled and the loop dispatches item i + 2 or returns.
SerialSettle(settled) ==
  /\ pc = "awaitBatch"
  /\ safeBatchSize(options) = 1
  /\ stage[i + 1] = "calling"
  /\ result' = FinallyUpdate(settled)
  /\ i' = i + 1
  /\ settleLog' = Append(settleLog, [item |-> i + 1, ok |-> ~RemoteFails(i + 1)])
  /\ IF i + 1 < dataArray.length
     THEN /\ stage' = [stage EXCEPT ![i + 1] = "done", ![i + 2] = "calling"]
          /\ attempt' = [attempt EXCEPT ![i + 2] = 1]
          /\ calls' = [calls EXCEPT ![i + 2] = @ + 1]
          /\ callLog' = [callLog EXCEPT ![i + 2] =
               Append(@, ExclusionArgument(options, 1))]
          /\ slices' = Append(slices, {i + 2})
          /\ UNCHANGED <<pc, returned>>
     ELSE /\ stage' = [stage EXCEPT ![i + 1] = "done"]
          /\ returned' = Some(FinallyUpdate(settled))
          /\ pc' = "resolved"
          /\ UNCHANGED <<attempt, calls, slices, callLog>>
  /\ UNCHANGED <<callVars, onProgressLog, batchTimers, backoffTimer,
                 onErrorLog, thrown, microtasks, running, counters>>

\* migration.ts:47-50, 178 / 126-129, 203: the call of item i + 1 resolves.
SerialResolves ==
  /\ ~RemoteFails(i + 1)
  /\ SerialSettle(ThenUpdate(result, i + 1))
  /\ UNCHANGED <<lastError, failedWith>>

\* migration.ts:51-54, 179-190 / 130-133, 204-215: the only attempt of item
\* i + 1 rejects.
SerialRejects ==
  /\ RemoteFails(i + 1)
  /\ SerialSettle(CatchUpdate(result, i + 1, 1))
  /\ lastError' = [lastError EXCEPT ![i + 1] = 1]
  /\ \E status \in faults : failedWith' = [failedWith EXCEPT ![i + 1] = Some(status)]

NextSerial ==
  \/ MigrateStarts
  \/ SerialResolves
  \/ SerialRejects

SpecSerial == InitSerial /\ [][NextSerial]_vars

\* ---------------------------------------------------- the batched migration
\* Migrations of up to MaxBatchItems items with any batchSize and
\* delayBetweenBatches, maxRetries 1 and no callbacks, against the remote
\* operation that fails at odd indices.  The calls of a batch settle
\* together, and one step runs every handler of the batch; the scheduler's
\* steps are those of Spec.
MaxBatchItems == 25

BatchedBatchSizes == {Undefined} \cup {Some(b) : b \in {-5, 0, 1, 3, 10, 100, 500}}
BatchedDelays == {Undefined, Some(-20), Some(0), Some(50)}

InitBatched ==
  /\ config = [passphrase |-> "correct-horse-battery"]
  /\ op \in {"encrypt", "decrypt"}
  /\ dataArray \in {[isArray |-> TRUE, length |-> n] : n \in 1..MaxBatchItems}
  /\ options \in [batchSize : BatchedBatchSizes,
                  maxRetries : {Some(1)},
                  delayBetweenBatches : BatchedDelays,
                  onProgress : {"absent"},
                  onError : {"absent"},
                  exclusionOptions : {Undefined}]
  /\ pc = "called"
  /\ i = 0
  /\ result = NoResult
  /\ returned = Undefined
  /\ thrown = Undefined
  /\ stage = [j \in Items |-> "idle"]
  /\ attempt = [j \in Items |-> 0]
  /\ calls = [j \in Items |-> 0]
  /\ lastError = [j \in Items |-> 0]
  /\ microtasks = <<>>
  /\ running = Undefined
  /\ onProgressCalls = 0
  /\ onErrorCalls = 0
  /\ batchDelays = 0
  /\ backoffDelays = 0
  /\ consoleErrors = 0
  /\ slices = <<>>
  /\ batchTimers = <<>>
  /\ backoffTimer = [j \in Items |-> Undefined]
  /\ onErrorLog = <<>>
  /\ settleLog = <<>>
  /\ onProgressLog = <<>>
  /\ callLog = [j \in Items |-> <<>>]
  /\ failedWith = [j \in Items |-> Undefined]
  /\ faults = ServerFaults
  /\ ClientAtRest

\* migration.ts:47-54 / 126-133: the .then or .catch handlers of the items
\* j..last, in input order.
RECURSIVE SettleItems(_, _, _)
SettleItems(res, j, last) ==
  IF j > last THEN res
  ELSE SettleItems(IF RemoteFails(j) THEN CatchUpdate(res, j, 1)
                   ELSE ThenUpdate(res, j),
                   j + 1, last)

\* migration.ts:64-68 / 142-146: the .finally handlers of k items.
RECURSIVE FinallyTimes(_, _)
FinallyTimes(res, k) ==
  IF k = 0 THEN res ELSE FinallyTimes(FinallyUpdate(res), k - 1)

\* migration.ts:45-78 / 124-155: the only attempt of every item of the batch
\* settles and the reaction jobs of the batch run: the .then and .catch
\* handlers, then the .finally handlers.
BatchRuns ==
  /\ pc = "awaitBatch"
  /\ running = Undefined
  /\ safeRetries(options) = 1
  /\ options.onError = "absent" /\ options.onProgress = "absent"
  /\ \A j \in CurrentBatch : stage[j] = "calling"
  /\ result' = FinallyTimes(
                 SettleItems(result, i + 1,
                             Min(i + safeBatchSize(options), dataArray.length)),
                 Cardinality(CurrentBatch))
  /\ stage' = [j \in Items |-> IF j \in CurrentBatch THEN "done" ELSE stage[j]]
  /\ settleLog' = settleLog \o
       [k \in 1..Cardinality(CurrentBatch) |->
          [item |-> i + k, ok |-> ~RemoteFails(i + k)]]
  /\ lastError' = [j \in Items |->
                     IF j \in CurrentBatch /\ RemoteFails(j) THEN 1
                     ELSE lastError[j]]
  /\ \E status \in faults :
       failedWith' = [j \in Items |->
                    IF j \in CurrentBatch /\ RemoteFails(j) THEN Some(status)
                    ELSE failedWith[j]]
  /\ UNCHANGED <<callVars, onProgressLog, callLog, slices, batchTimers, backoffTimer,
                 onErrorLog, pc, i, returned, thrown, attempt, calls,
                 microtasks, running, counters>>

NextBatched ==
  \/ MigrateStarts
  \/ BatchRuns
  \/ BatchSettledDelay
  \/ BatchSettledNext
  \/ BatchSettledReturn
  \/ DelayFires

SpecBatched == InitBatched /\ [][NextBatched]_vars

\* ------------------------------------------------------ the retried migration
\* Migrations of up to MaxRetryItems items in one batch, with any maxRetries,
\* against a remote operation whose every call may resolve or reject; the
\* steps are those of Spec.
MaxRetryItems == 1

RetriedMaxRetries == {Undefined} \cup {Some(r) : r \in {-2, 0, 1, 3, 10, 50}}

\* What makes the calls of a run fail: an internal error of the service, a
\* check of the client on the item or on the passphrase (400), or a network
\* error now and a refused API key then (0, 401).
RetriedFaults == {ServerFaults, {400}, {0, 401}}

InitRetried ==
  /\ config = [passphrase |-> "correct-horse-battery"]
  /\ op \in {"encrypt", "decrypt"}
  /\ dataArray \in {[isArray |-> TRUE, length |-> n] : n \in 1..MaxRetryItems}
  /\ options \in [batchSize : {Undefined},
                  maxRetries : RetriedMaxRetries,
                  delayBetweenBatches : {Undefined},
                  onProgress : {"absent"},
                  onError : {"absent", "returns"},
                  exclusionOptions : ExclusionOptionValues]
  /\ pc = "called"
  /\ i = 0
  /\ result = NoResult
  /\ returned = Undefined
  /\ thrown = Undefined
  /\ stage = [j \in Items |-> "idle"]
  /\ attempt = [j \in Items |-> 0]
  /\ calls = [j \in Items |-> 0]
  /\ lastError = [j \in Items |-> 0]
  /\ microtasks = <<>>
  /\ running = Undefined
  /\ onProgressCalls = 0
  /\ onErrorCalls = 0
  /\ batchDelays = 0
  /\ backoffDelays = 0
  /\ consoleErrors = 0
  /\ slices = <<>>
  /\ batchTimers = <<>>
  /\ backoffTimer = [j \in Items |-> Undefined]
  /\ onErrorLog = <<>>
  /\ settleLog = <<>>
  /\ onProgressLog = <<>>
  /\ callLog = [j \in Items |-> <<>>]
  /\ failedWith = [j \in Items |-> Undefined]
  /\ faults \in RetriedFaults
  /\ ClientAtRest

NextRetried ==
  \/ MigrateStarts
  \/ BatchSettledReturn
  \/ \E j \in Items : RemoteResolves(j)
  \/ \E j \in Items : RemoteRejectsRetry(j)
  \/ \E j \in Items : RemoteRejectsFinal(j)
  \/ \E j \in Items : BackoffFires(j)
  \/ \E j \in Items : ThenHandler(j)
  \/ \E j \in Items : CatchPassThrough(j)
  \/ \E j \in Items : ThenPassThrough(j)
  \/ \E j \in Items : CatchHandler(j)
  \/ \E j \in Items : CatchHandlerOnError(j)
  \/ \E j \in Items : OnErrorEnds(j)
  \/ \E j \in Items : FinallyHandler(j)

SpecRetried == InitRetried /\ [][NextRetried]_vars

\* ------------------------------------------------------------ the client
\* The life of one CipherionClient: new CipherionClient(providedConfig),
\* then any calls of updateConfig, encrypt and deepEncrypt, one at a time,
\* each request answered by the server or failing.
MaxRequests == 1

MinPassphraseLength == 12
DefaultTimeout == 30000

\* !v for an optional string: undefined and "" are falsy.
Falsy(v) == v = Undefined \/ v = Some("")

\* a || b for optional strings.
OrElse(a, b) == IF Falsy(a) THEN b ELSE a

\* !v for an optional number: undefined and 0 are falsy.
FalsyNumber(v) == v = Undefined \/ v = Some(0)

\* The strings an option or an environment variable is given as.
ProvidedConfigs ==
  [baseUrl : {Undefined, Some(""), Some("https://api.cipherion.example")},
   projectId : {Undefined, Some("proj_1")},
   apiKey : {Undefined, Some(""), Some("key_1")},
   passphrase : {Undefined, Some("short"), Some("correct-horse-battery")},
   timeout : {Undefined}]
\* process.env: nothing set, everything set, all but the base URL set.
Environments ==
  [CIPHERION_BASE_URL : {Undefined}, CIPHERION_PROJECT_ID : {Undefined},
   CIPHERION_API_KEY : {Undefined}, CIPHERION_PASSPHRASE : {Undefined}]
  \cup
  [CIPHERION_BASE_URL : {Undefined, Some("https://env.cipherion.example")},
   CIPHERION_PROJECT_ID : {Some("proj_env")},
   CIPHERION_API_KEY : {Some("key_env")},
   CIPHERION_PASSPHRASE : {Some("environment-passphrase")}]
\* The arguments of updateConfig.
NewConfigs ==
  [baseUrl : {Undefined, Some(""), Some("https://eu.cipherion.example")},
   apiKey : {Undefined, Some(""), Some("key_2")},
   passphrase : {Undefined, Some("another-passphrase")},
   timeout : {Undefined, Some(100)}]
\* The first argument of encrypt / deepEncrypt, by its type.
DataValues == {[type |-> "undefined"], [type |-> "null"], [type |-> "string"]}
\* The HTTP status of a failed request; 0 is a network error.
FailureStatuses == {0, 401, 500}

\* CipherionClient.ts:46-57: buildConfig.
buildConfig(provided, environment) ==
  [baseUrl |-> OrElse(OrElse(provided.baseUrl, environment.CIPHERION_BASE_URL),
                      Some(""))[1],
   projectId |-> OrElse(OrElse(provided.projectId,
                               environment.CIPHERION_PROJECT_ID), Some(""))[1],
   apiKey |-> OrElse(OrElse(provided.apiKey, environment.CIPHERION_API_KEY),
                     Some(""))[1],
   passphrase |-> OrElse(OrElse(provided.passphrase,
                                environment.CIPHERION_PASSPHRASE), Some(""))[1],
   timeout |-> IF FalsyNumber(provided.timeout) THEN DefaultTimeout
               ELSE provided.timeout[1]]

\* A faulty variant of validateConfig: the API key is not checked.
validateConfigNoApiKey(cfg) ==
  IF cfg.baseUrl = "" THEN Some(CipherionError("Base URL is required", 400))
  ELSE IF cfg.projectId = ""
  THEN Some(CipherionError("Project ID is required", 400))
  ELSE Undefined

\* validation.ts:5-15: validateConfig, as the error thrown or Undefined.
validateConfig(cfg) ==
  IF cfg.baseUrl = "" THEN Some(CipherionError("Base URL is required", 400))
  ELSE IF cfg.projectId = ""
  THEN Some(CipherionError("Project ID is required", 400))
  ELSE IF cfg.apiKey = "" THEN Some(CipherionError("API Key is required", 400))
  ELSE Undefined

\* A faulty variant of validatePassphrase: any passphrase that is not empty
\* is accepted.
validatePassphraseAnyLength(passphrase) ==
  IF passphrase = ""
  THEN Some(CipherionError("Passphrase must be at least 12 characters long",
                           400))
  ELSE Undefined

\* validation.ts:17-21: validatePassphrase.
validatePassphrase(passphrase) ==
  IF passphrase = "" \/ Len(passphrase) < MinPassphraseLength
  THEN Some(CipherionError("Passphrase must be at least 12 characters long",
                           400))
  ELSE Undefined

\* validation.ts:23-27: validateData.
validateData(data) ==
  IF data.type = "null" \/ data.type = "undefined"
  THEN Some(CipherionError("Data cannot be null or undefined", 400))
  ELSE Undefined

\* CipherionClient.ts:83-90 / 225-232: the checks of encrypt and deepEncrypt
\* before the request, as the first error thrown or Undefined.
CryptoChecks(data, passphrase) ==
  IF validateData(data) # Undefined THEN validateData(data)
  ELSE IF passphrase = ""
  THEN Some(CipherionError("Passphrase is required", 400))
  ELSE validatePassphrase(passphrase)

\* CipherionClient.ts:108-133: the catch block of encrypt; every error it
\* catches here is a CipherionError.
EncryptCatch(error) == CipherionError(error.message, error.statusCode)

\* CipherionClient.ts:259-276: the catch block of deepEncrypt; it reads
\* error.status and error.response, which a CipherionError does not have.
DeepEncryptCatch(error) == CipherionError(error.message, 500)

\* http.ts:18-35: new HttpClient(baseUrl, apiKey, timeout, logger).
HttpClient(baseUrl, apiKey, timeout) ==
  [baseUrl |-> baseUrl, apiKey |-> apiKey, timeout |-> timeout]

\* The record of a call: its argument, the error it threw or rejected with,
\* the error that made it fail (the one its catch block caught, when it has
\* one), and the configuration and the number of requests sent when it was
\* made.
Call(method, argument, error) ==
  Some([method |-> method, argument |-> argument, thrown |-> error,
        underlying |-> error,
        configBefore |-> config, requestsBefore |-> Len(requests)])

migrationVars == <<op, dataArray, options, faults, pc, i, result, returned, thrown,
                   stage, attempt, calls, lastError, microtasks, running,
                   counters, logs, runVars>>

InitClient ==
  /\ providedConfig \in ProvidedConfigs
  /\ env \in Environments
  /\ config = Undefined
  /\ client = Undefined
  /\ httpClient = Undefined
  /\ migrationHelper = Undefined
  /\ initialized = Undefined
  /\ requests = <<>>
  /\ pendingPost = Undefined
  /\ lastCall = Undefined
  /\ other = Undefined
  /\ active = 1
  /\ RetryingClientIdle
  /\ op = "encrypt"
  /\ dataArray = [isArray |-> TRUE, length |-> 0]
  /\ options = SerialOptions
  /\ pc = "called"
  /\ i = 0
  /\ result = NoResult
  /\ returned = Undefined
  /\ thrown = Undefined
  /\ stage = [j \in Items |-> "idle"]
  /\ attempt = [j \in Items |-> 0]
  /\ calls = [j \in Items |-> 0]
  /\ lastError = [j \in Items |-> 0]
  /\ microtasks = <<>>
  /\ running = Undefined
  /\ onProgressCalls = 0
  /\ onErrorCalls = 0
  /\ batchDelays = 0
  /\ backoffDelays = 0
  /\ consoleErrors = 0
  /\ slices = <<>>
  /\ batchTimers = <<>>
  /\ backoffTimer = [j \in Items |-> Undefined]
  /\ onErrorLog = <<>>
  /\ settleLog = <<>>
  /\ onProgressLog = <<>>
  /\ callLog = [j \in Items |-> <<>>]
  /\ failedWith = [j \in Items |-> Undefined]
  /\ faults = ServerFaults

\* CipherionClient.ts:28-44: the constructor.  When validateConfig throws,
\* nothing after it runs and the caller gets no client.
Construct ==
  /\ lastCall = Undefined
  /\ config' = buildConfig(providedConfig, env)
  /\ IF validateConfig(config') # Undefined
     THEN /\ lastCall' = Call("constructor", providedConfig,
                              validateConfig(config'))
          /\ UNCHANGED <<client, httpClient, migrationHelper, initialized>>
     ELSE /\ httpClient' = Some(HttpClient(config'.baseUrl, config'.apiKey,
                                           config'.timeout))
          /\ migrationHelper' = Some("MigrationHelper")
          /\ client' = Some("CipherionClient")
          /\ initialized' = Some(config')
          /\ lastCall' = Call("constructor", providedConfig, Undefined)
  /\ UNCHANGED <<providedConfig, env, requests, pendingPost, migrationVars,
                 retryVars>>

\* A faulty variant of SpreadSafeConfig: the whole of newConfig is spread
\* over the configuration.
SpreadNewConfig(cfg, newConfig) ==
  [cfg EXCEPT !.baseUrl = IF newConfig.baseUrl = Undefined THEN @
                          ELSE newConfig.baseUrl[1],
              !.timeout = IF newConfig.timeout = Undefined THEN @
                          ELSE newConfig.timeout[1],
              !.apiKey = IF newConfig.apiKey = Undefined THEN @
                         ELSE newConfig.apiKey[1],
              !.passphrase = IF newConfig.passphrase = Undefined THEN @
                             ELSE newConfig.passphrase[1]]

\* CipherionClient.ts:507: const { apiKey, passphrase, ...safeConfig } =
\* newConfig, spread over the configuration: a key that is given replaces
\* the field.
SpreadSafeConfig(cfg, newConfig) ==
  [cfg EXCEPT !.baseUrl = IF newConfig.baseUrl = Undefined THEN @
                          ELSE newConfig.baseUrl[1],
              !.timeout = IF newConfig.timeout = Undefined THEN @
                          ELSE newConfig.timeout[1]]

\* CipherionClient.ts:506-537: updateConfig(newConfig).
UpdateConfig(newConfig) ==
  /\ client # Undefined
  /\ pendingPost = Undefined
  /\ IF ~Falsy(newConfig.apiKey) \/ ~Falsy(newConfig.passphrase)
     THEN /\ lastCall' = Call("updateConfig", newConfig,
               Some(CipherionError("Cannot update apiKey or passphrase", 403)))
          /\ UNCHANGED <<config, httpClient>>
     ELSE /\ config' = SpreadSafeConfig(config, newConfig)
          /\ lastCall' = Call("updateConfig", newConfig, validateConfig(config'))
          /\ IF validateConfig(config') = Undefined
                /\ (~Falsy(newConfig.baseUrl) \/ newConfig.timeout # Undefined)
             THEN httpClient' = Some(HttpClient(config'.baseUrl, config'.apiKey,
                                                config'.timeout))
             ELSE UNCHANGED httpClient
  /\ UNCHANGED <<providedConfig, env, client, migrationHelper, initialized,
                 requests, pendingPost, migrationVars,
                 retryVars>>

\* The request httpClient.post sends for a method of the client.
Request(method, data) ==
  [path |-> method, projectId |-> config.projectId, data |-> data,
   passphrase |-> config.passphrase, baseUrl |-> httpClient[1].baseUrl,
   apiKey |-> httpClient[1].apiKey]

\* An async method of the client up to its first await: the checks throw,
\* which rejects the call with what the method's catch block makes of the
\* error, or the request is sent.
CryptoCall(method, data, caught) ==
  /\ client # Undefined
  /\ pendingPost = Undefined
  /\ Len(requests) < MaxRequests
  /\ IF CryptoChecks(data, config.passphrase) # Undefined
     THEN /\ lastCall' = Some([Call(method, data, Some(caught))[1] EXCEPT
                                 !.underlying = CryptoChecks(data, config.passphrase)])
          /\ UNCHANGED <<requests, pendingPost>>
     ELSE /\ requests' = Append(requests, Request(method, data))
          /\ pendingPost' = Some(method)
          /\ lastCall' = Call(method, data, Undefined)
  /\ UNCHANGED <<config, providedConfig, env, client, httpClient,
                 migrationHelper, initialized, migrationVars,
                 retryVars>>

\* CipherionClient.ts:79-95, 108-133: encrypt(data).
Encrypt(data) ==
  CryptoCall("encrypt", data,
             EncryptCatch(CryptoChecks(data, config.passphrase)[1]))

\* CipherionClient.ts:221-244, 259-276: deepEncrypt(data).
DeepEncrypt(data) ==
  CryptoCall("deepEncrypt", data,
             DeepEncryptCatch(CryptoChecks(data, config.passphrase)[1]))

\* CipherionClient.ts:92-107 / 241-258: the request is answered and the
\* method returns the encrypted data.
PostResolves ==
  /\ pendingPost # Undefined
  /\ pendingPost' = Undefined
  /\ UNCHANGED <<config, providedConfig, env, client, httpClient,
                 migrationHelper, initialized, requests, lastCall,
                 migrationVars,
                 retryVars>>

\* http.ts:57-68 and CipherionClient.ts:108-133 / 259-276: the request
\* fails; the interceptor rejects with CipherionError.fromAxiosError and the
\* method's catch block throws its own CipherionError.
PostRejects(status) ==
  /\ pendingPost # Undefined
  /\ pendingPost' = Undefined
  /\ lastCall' = Some([lastCall[1] EXCEPT !.thrown =
       Some(IF pendingPost[1] = "encrypt"
            THEN EncryptCatch(CipherionError("API request failed", status))
            ELSE DeepEncryptCatch(CipherionError("API request failed", status))),
       !.underlying = Some(CipherionError("API request failed", status))])
  /\ UNCHANGED <<config, providedConfig, env, client, httpClient,
                 migrationHelper, initialized, requests, migrationVars,
                 retryVars>>

NextClient ==
  \/ Construct
  \/ \E newConfig \in NewConfigs : UpdateConfig(newConfig)
  \/ \E data \in DataValues : Encrypt(data)
  \/ \E data \in DataValues : DeepEncrypt(data)
  \/ PostResolves
  \/ \E status \in FailureStatuses : PostRejects(status)

SpecClient == InitClient /\ [][NextClient]_vars

\* ------------------------------------------------------ two migrations
\* Two migrate calls on one client, overlapping in time.  Each call has its
\* own parameters and locals (migration.ts:12-41): the variables show those
\* of the call that is taking steps, `other` keeps those of the call that is
\* not.  Between two run-to-completion steps the event loop may go on with
\* either call.  No callbacks, one attempt per item, no inter-batch delay.
MaxRunItems == 2

RunOptions ==
  [batchSize : {Some(1), Some(2)}, maxRetries : {Some(1)},
   delayBetweenBatches : {Some(0)}, onProgress : {"absent"},
   onError : {"absent"}, exclusionOptions : {Undefined}]

\* The parameters and locals of a call that has not started.
NewRun(o, len, opts) ==
  [op |-> o, dataArray |-> [isArray |-> TRUE, length |-> len],
   options |-> opts, pc |-> "called", i |-> 0, result |-> NoResult,
   returned |-> Undefined, thrown |-> Undefined,
   stage |-> [j \in 1..len |-> "idle"], attempt |-> [j \in 1..len |-> 0],
   calls |-> [j \in 1..len |-> 0], lastError |-> [j \in 1..len |-> 0],
   microtasks |-> <<>>, onProgressCalls |-> 0, onErrorCalls |-> 0,
   batchDelays |-> 0, backoffDelays |-> 0, consoleErrors |-> 0,
   slices |-> <<>>, batchTimers |-> <<>>,
   backoffTimer |-> [j \in 1..len |-> Undefined], onErrorLog |-> <<>>,
   settleLog |-> <<>>, onProgressLog |-> <<>>,
   callLog |-> [j \in 1..len |-> <<>>],
   failedWith |-> [j \in 1..len |-> Undefined]]

\* The parameters and locals of the call that is taking steps.
ThisRun ==
  [op |-> op, dataArray |-> dataArray, options |-> options, pc |-> pc,
   i |-> i, result |-> result, returned |-> returned, thrown |-> thrown,
   stage |-> stage, attempt |-> attempt, calls |-> calls,
   lastError |-> lastError, microtasks |-> microtasks,
   onProgressCalls |-> onProgressCalls, onErrorCalls |-> onErrorCalls,
   batchDelays |-> batchDelays, backoffDelays |-> backoffDelays,
   consoleErrors |-> consoleErrors, slices |-> slices,
   batchTimers |-> batchTimers, backoffTimer |-> backoffTimer,
   onErrorLog |-> onErrorLog, settleLog |-> settleLog,
   onProgressLog |-> onProgressLog, callLog |-> callLog, failedWith |-> failedWith]

\* The variables take the values of the record `run`, but for result.
ResumeLocals(run) ==
  /\ op' = run.op
  /\ dataArray' = run.dataArray
  /\ options' = run.options
  /\ pc' = run.pc
  /\ i' = run.i
  /\ returned' = run.returned
  /\ thrown' = run.thrown
  /\ stage' = run.stage
  /\ attempt' = run.attempt
  /\ calls' = run.calls
  /\ lastError' = run.lastError
  /\ microtasks' = run.microtasks
  /\ onProgressCalls' = run.onProgressCalls
  /\ onErrorCalls' = run.onErrorCalls
  /\ batchDelays' = run.batchDelays
  /\ backoffDelays' = run.backoffDelays
  /\ consoleErrors' = run.consoleErrors
  /\ slices' = run.slices
  /\ batchTimers' = run.batchTimers
  /\ backoffTimer' = run.backoffTimer
  /\ onErrorLog' = run.onErrorLog
  /\ settleLog' = run.settleLog
  /\ onProgressLog' = run.onProgressLog
  /\ callLog' = run.callLog
  /\ failedWith' = run.failedWith

InitTwoRuns ==
  /\ config = [passphrase |-> "correct-horse-battery"]
  /\ faults = ServerFaults
  /\ ClientConstructed
  /\ active = 1
  /\ running = Undefined
  /\ \E len \in 1..MaxRunItems, opts \in RunOptions :
       other = NewRun("encrypt", len, opts)
  /\ \E o \in {"encrypt", "decrypt"}, len \in 1..MaxRunItems,
        opts \in RunOptions :
       LET run == NewRun(o, len, opts) IN
       /\ op = run.op
       /\ dataArray = run.dataArray
       /\ options = run.options
       /\ pc = run.pc
       /\ i = run.i
       /\ result = run.result
       /\ returned = run.returned
       /\ thrown = run.thrown
       /\ stage = run.stage
       /\ attempt = run.attempt
       /\ calls = run.calls
       /\ lastError = run.lastError
       /\ microtasks = run.microtasks
       /\ onProgressCalls = run.onProgressCalls
       /\ onErrorCalls = run.onErrorCalls
       /\ batchDelays = run.batchDelays
       /\ backoffDelays = run.backoffDelays
       /\ consoleErrors = run.consoleErrors
       /\ slices = run.slices
       /\ batchTimers = run.batchTimers
       /\ backoffTimer = run.backoffTimer
       /\ onErrorLog = run.onErrorLog
       /\ settleLog = run.settleLog
       /\ onProgressLog = run.onProgressLog
       /\ callLog = run.callLog
       /\ failedWith = run.failedWith

\* A faulty variant of Switch: result is a field of the helper, one object
\* for both calls.
SwitchSharedResult ==
  /\ running = Undefined
  /\ other' = ThisRun
  /\ active' = 3 - active
  /\ ResumeLocals(other)
  /\ UNCHANGED <<config, faults, clientVars, retryVars, running, result>>

\* migration.ts:12-41 / 91-120: the event loop goes on with the other call.
\* The parameters and `result` are locals of each call; the helper has one
\* field, the client (migration.ts:6-10), which a migration only reads.
Switch ==
  /\ running = Undefined
  /\ other' = ThisRun
  /\ active' = 3 - active
  /\ ResumeLocals(other)
  /\ result' = other.result
  /\ UNCHANGED <<config, faults, clientVars, retryVars, running>>

NextTwoRuns ==
  \/ Switch
  \/ MigrateStarts
  \/ BatchSettledNext
  \/ BatchSettledReturn
  \/ \E j \in Items : RemoteResolves(j)
  \/ \E j \in Items : RemoteRejectsFinal(j)
  \/ \E j \in Items : ThenHandler(j)
  \/ \E j \in Items : CatchPassThrough(j)
  \/ \E j \in Items : ThenPassThrough(j)
  \/ \E j \in Items : CatchHandler(j)
  \/ \E j \in Items : FinallyHandler(j)

SpecTwoRuns == InitTwoRuns /\ [][NextTwoRuns]_vars

\* ------------------------------------------------- the retrying HttpClient
\* The HttpClient with MAX_RETRIES (logger.ts:398-583): calls of post, one
\* at a time, each request answered by the server with a status and a body
\* or not answered at all (a network error or a timeout).
MaxPosts == 1
\* The retry counts calculateRetryDelay is evaluated for.
MaxRetryCount == 4

MAX_RETRIES == 3
RETRY_DELAY_MS == 1000
RetryDelayCap == 10000
ValidStatusFrom == 200
ValidStatusBelow == 600
OkStatusFrom == 200
OkStatusBelow == 300
RetryJitterRange == 500

\* The arguments of post.
PostUrls == {"", "/api/v1/crypto/deep_encrypt/proj_1"}
PostData == {Undefined, Some("requestBody")}
\* What comes back for a request that was sent: a response with a status
\* and a body that is a JSON object or something else, or nothing.
AnswerStatuses == {200, 401, 429, 500, 999}
Answers ==
  {[kind |-> "response", status |-> s, body |-> b] :
     s \in AnswerStatuses, b \in {"object", "other"}}
  \cup {[kind |-> "none", status |-> 0, body |-> "other"]}

\* logger.ts:530: Math.random() * 500 for a double Math.random() in [0, 1):
\* the least value, 0, and two of the greatest, the doubles
\* 500 - g * 2^-44 just below 500.
RetryJitters ==
  {Ms(0)} \cup {[whole |-> RetryJitterRange, gap |-> g] : g \in 2..3}

\* logger.ts:443: validateStatus, the statuses for which axios resolves.
validateStatus(status) == status >= ValidStatusFrom /\ status < ValidStatusBelow

\* CipherionError.ts:46-72: fromAxiosError for the error axios rejects with.
fromAxiosError(answer) ==
  IF answer.kind = "response"
  THEN CipherionError("API request failed", answer.status)
  ELSE CipherionError("Network error - unable to reach server", 0)

\* A faulty variant of shouldRetry: one retry more.
shouldRetryOnceMore(error, retryCount) ==
  retryCount <= MAX_RETRIES /\ isRetryable(error.statusCode)

\* logger.ts:522-524: shouldRetry.
shouldRetry(error, retryCount) ==
  retryCount < MAX_RETRIES /\ isRetryable(error.statusCode)

\* A faulty variant of calculateRetryDelay: the delay grows by RETRY_DELAY_MS
\* with each retry.
calculateRetryDelayLinear(retryCount, jitter) ==
  LET c == (RETRY_DELAY_MS * (retryCount + 1)) + jitter.whole
      sum == [whole |-> c,
              gap |-> IF jitter.gap = 0 THEN 0 ELSE RoundGap(jitter.gap, c)]
  IN IF c < RetryDelayCap \/ (c = RetryDelayCap /\ sum.gap > 0) THEN sum
     ELSE Ms(RetryDelayCap)

\* logger.ts:527-532: Math.min(baseDelay * Math.pow(2, retryCount) + jitter,
\* 10000), the sum being a sum of doubles.
calculateRetryDelay(retryCount, jitter) ==
  LET c == (RETRY_DELAY_MS * (2^retryCount)) + jitter.whole
      sum == [whole |-> c,
              gap |-> IF jitter.gap = 0 THEN 0 ELSE RoundGap(jitter.gap, c)]
  IN IF c < RetryDelayCap \/ (c = RetryDelayCap /\ sum.gap > 0) THEN sum
     ELSE Ms(RetryDelayCap)

\* logger.ts:546-552: the checks of post on its arguments.
PostChecks(url, data) ==
  IF url = "" THEN Some(CipherionError("Invalid URL provided", 400))
  ELSE IF data = Undefined
  THEN Some(CipherionError("Request data is required", 400))
  ELSE Undefined

\* logger.ts:486-496 and 554-568: what post makes of a response axios
\* resolved with: handleSuccessResponse throws for a body that is not an
\* object, post throws for a status outside 200..299 and returns the body
\* otherwise.
PostOfResponse(answer) ==
  IF answer.body # "object"
  THEN [threw |-> Some(CipherionError("Invalid API response format", 500))]
  ELSE IF answer.status < OkStatusFrom \/ answer.status >= OkStatusBelow
  THEN [threw |-> Some(CipherionError("Unexpected response status",
                                      answer.status))]
  ELSE [threw |-> Undefined]

\* logger.ts:466-483: handleRequest, the request interceptor, and the
\* request going out.
Send(retryCount) ==
  /\ metadata' = Some([retryCount |-> retryCount])
  /\ sendLog' = Append(sendLog, [post |-> postCount', retryCount |-> retryCount,
                                 answer |-> Undefined])
  /\ postAt' = "inFlight"

\* logger.ts:544-554: post(url, data) up to the await of this.client.post.
Post(url, data) ==
  /\ postAt \in {"idle", "returned", "thrown"}
  /\ postCount < MaxPosts
  /\ postCount' = postCount + 1
  /\ IF PostChecks(url, data) # Undefined
     THEN /\ postAt' = "thrown"
          /\ postOutcome' = Some([threw |-> PostChecks(url, data)])
          /\ metadata' = Undefined
          /\ UNCHANGED <<sendLog, sleepLog>>
     ELSE /\ Send(0)
          /\ postOutcome' = Undefined
          /\ UNCHANGED sleepLog
  /\ UNCHANGED <<config, clientVars, migrationVars>>

\* logger.ts:459-462, 486-496, 554-578: the server answers with a status
\* axios resolves for; the response interceptor and the rest of post run.
Answered(answer) ==
  /\ postAt = "inFlight"
  /\ answer.kind = "response"
  /\ validateStatus(answer.status)
  /\ sendLog' = [sendLog EXCEPT ![Len(sendLog)].answer = Some(answer)]
  /\ postOutcome' = Some(PostOfResponse(answer))
  /\ postAt' = IF PostOfResponse(answer).threw = Undefined THEN "returned"
               ELSE "thrown"
  /\ UNCHANGED <<metadata, sleepLog, postCount>>
  /\ UNCHANGED <<config, clientVars, migrationVars>>

\* logger.ts:499-512: axios rejects (no response, or a status it does not
\* resolve for) and handleErrorResponse decides to retry: it computes the
\* delay and sleeps.
FailedRetry(answer) ==
  /\ postAt = "inFlight"
  /\ ~(answer.kind = "response" /\ validateStatus(answer.status))
  /\ shouldRetry(fromAxiosError(answer), metadata[1].retryCount)
  /\ sendLog' = [sendLog EXCEPT ![Len(sendLog)].answer = Some(answer)]
  /\ \E jitter \in RetryJitters :
       sleepLog' = Append(sleepLog,
                          [post |-> postCount, retryCount |-> metadata[1].retryCount,
                           delay |-> calculateRetryDelay(metadata[1].retryCount,
                                                         jitter)])
  /\ postAt' = "sleeping"
  /\ UNCHANGED <<metadata, postOutcome, postCount>>
  /\ UNCHANGED <<config, clientVars, migrationVars>>

\* logger.ts:499-505, 518 and 569-573: axios rejects and handleErrorResponse
\* does not retry: it rejects with the CipherionError, which post rethrows.
FailedFinal(answer) ==
  /\ postAt = "inFlight"
  /\ ~(answer.kind = "response" /\ validateStatus(answer.status))
  /\ ~shouldRetry(fromAxiosError(answer), metadata[1].retryCount)
  /\ sendLog' = [sendLog EXCEPT ![Len(sendLog)].answer = Some(answer)]
  /\ postOutcome' = Some([threw |-> Some(fromAxiosError(answer))])
  /\ postAt' = "thrown"
  /\ UNCHANGED <<metadata, sleepLog, postCount>>
  /\ UNCHANGED <<config, clientVars, migrationVars>>

\* logger.ts:511-515: the sleep ends, the retry count of the request goes up
\* by one and the request is sent again.
SleepEnds ==
  /\ postAt = "sleeping"
  /\ UNCHANGED postCount
  /\ Send(metadata[1].retryCount + 1)
  /\ UNCHANGED <<sleepLog, postOutcome>>
  /\ UNCHANGED <<config, clientVars, migrationVars>>

InitHttp ==
  /\ config = [passphrase |-> "correct-horse-battery"]
  /\ op = "encrypt"
  /\ dataArray = [isArray |-> TRUE, length |-> 0]
  /\ options = SerialOptions
  /\ pc = "called"
  /\ i = 0
  /\ result = NoResult
  /\ returned = Undefined
  /\ thrown = Undefined
  /\ stage = [j \in Items |-> "idle"]
  /\ attempt = [j \in Items |-> 0]
  /\ calls = [j \in Items |-> 0]
  /\ lastError = [j \in Items |-> 0]
  /\ microtasks = <<>>
  /\ running = Undefined
  /\ onProgressCalls = 0
  /\ onErrorCalls = 0
  /\ batchDelays = 0
  /\ backoffDelays = 0
  /\ consoleErrors = 0
  /\ slices = <<>>
  /\ batchTimers = <<>>
  /\ backoffTimer = [j \in Items |-> Undefined]
  /\ onErrorLog = <<>>
  /\ settleLog = <<>>
  /\ onProgressLog = <<>>
  /\ callLog = [j \in Items |-> <<>>]
  /\ failedWith = [j \in Items |-> Undefined]
  /\ faults = ServerFaults
  /\ ClientAtRest

NextHttp ==
  \/ \E url \in PostUrls, data \in PostData : Post(url, data)
  \/ \E answer \in Answers : Answered(answer)
  \/ \E answer \in Answers : FailedRetry(answer)
  \/ \E answer \in Answers : FailedFinal(answer)
  \/ SleepEnds

SpecHttp == InitHttp /\ [][NextHttp]_vars

\* --------------------------------------------------------------- vocabulary
TypeOK ==
  /\ pc \in {"called", "rejected", "resolved", "awaitBatch", "delay"}
  /\ \A j \in Items : stage[j] \in {"idle", "calling", "backoff", "fulfilled",
        "thenRan", "rejected", "toCatch", "inOnError", "toFinally",
        "inOnProgress", "done"}
  /\ \A k \in 1..Len(microtasks) : microtasks[k] \in Items

\* The helper is running or has returned: result is the run's result.
Started == pc \in {"awaitBatch", "delay", "resolved"}

\* The summary a caller or a callback can read.
Summary == IF pc = "resolved" THEN returned[1].summary ELSE result.summary

\* The 0-based number of the batch item j belongs to.
BatchIndex(j) == (j - 1) \div safeBatchSize(options)

\* The items dispatched whose promise chain has not settled.
InFlight == {j \in Items : stage[j] \notin {"idle", "done"}}

\* Every attempt of item j has failed.
Exhausted(j) == stage[j] = "done" /\ lastError[j] = attempt[j]

Occurrences(seq, P(_)) == Cardinality({k \in 1..Len(seq) : P(seq[k])})

\* Some step of the migration can be taken.
CanStep ==
  \/ ENABLED (MigrateRejects \/ MigrateEmpty \/ MigrateStarts)
  \/ ENABLED (BatchSettledDelay \/ BatchSettledNext \/ BatchSettledReturn
                \/ DelayFires)
  \/ \E j \in Items :
       \/ ENABLED (RemoteResolves(j) \/ RemoteRejectsRetry(j)
                     \/ RemoteRejectsFinal(j) \/ BackoffFires(j))
       \/ ENABLED (ThenHandler(j) \/ CatchPassThrough(j) \/ ThenPassThrough(j)
                     \/ CatchHandler(j) \/ CatchHandlerOnError(j))
       \/ ENABLED (OnErrorEnds(j) \/ OnProgressEnds(j))
       \/ FinallyDue(j)

\* ------------------------------------------------------------------- claims
\* C1: when migrateEncrypt / migrateDecrypt returns for a non-empty array,
\* the returned summary has processed = successful + failed = total = the
\* length of the input, whatever attempts succeeded or failed.
C1_CountsAtCompletion ==
  (pc = "resolved" /\ dataArray.length > 0) =>
    LET s == returned[1].summary IN
    /\ s.processed = s.successful + s.failed
    /\ s.processed = s.total
    /\ s.total = dataArray.length

\* A run of MaxItems items has returned with successes, failures and retries.
C1_Witness ==
  /\ pc = "resolved"
  /\ dataArray.length = MaxItems
  /\ returned[1].summary.successful >= 1
  /\ returned[1].summary.failed >= 1
  /\ backoffDelays >= 1

\* C2: in every state of a migration run, also while a callback is running,
\* summary.processed = summary.successful + summary.failed.
C2_ProcessedIsSumAlways ==
  result.summary.processed = result.summary.successful + result.summary.failed

\* C2, as a callback sees it: while onProgress or onError is running,
\* summary.processed = summary.successful + summary.failed.
C2_ProcessedIsSumInCallbacks ==
  running # Undefined =>
    result.summary.processed = result.summary.successful + result.summary.failed

\* C2, as onProgress sees it.
C2_ProcessedIsSumInOnProgress ==
  (running # Undefined /\ running[1].callback = "onProgress") =>
    result.summary.processed = result.summary.successful + result.summary.failed

\* C3: in every state of a run and in the returned summary,
\* summary.percentage = 100 exactly when summary.processed = summary.total.
C3_HundredIffComplete ==
  Started => (Summary.percentage = 100 <=> Summary.processed = Summary.total)

\* C4: in every state of a run, summary.percentage lies in 0..100 and is an
\* integer nearest to 100 * processed / total for the current processed
\* count: |percentage - 100 * processed / total| <= 1/2.
C4_PercentageIsRounded ==
  (Started /\ Summary.total > 0) =>
    /\ Summary.percentage \in 0..100
    /\ 2 * Summary.total * Summary.percentage - 200 * Summary.processed
         <= Summary.total
    /\ 200 * Summary.processed - 2 * Summary.total * Summary.percentage
         <= Summary.total

\* An item has just been counted where 100 * processed / total lies exactly
\* half way between two integers (23 of 40: 57.5).
C4_Witness ==
  /\ Started
  /\ Summary.total = 40
  /\ Summary.processed = 23
  /\ Summary.percentage \in {57, 58}

\* C5, as stated: a migration call on an empty array returns the empty
\* result with percentage 100, with no remote call, callback or delay.
C5_EmptyArrayReturns ==
  (dataArray.isArray /\ dataArray.length = 0 /\ pc # "called") =>
    /\ pc = "resolved"
    /\ returned = Some([successful |-> <<>>, failed |-> <<>>,
                        summary |-> [total |-> 0, processed |-> 0,
                                     successful |-> 0, failed |-> 0,
                                     percentage |-> 100]])

\* C5, amended: on a client with a passphrase configured, a migration call
\* on an empty array returns, in its first step, the empty result with
\* percentage 100, with no remote call, callback or delay.
C5_EmptyArrayReturnsWithPassphrase ==
  (config.passphrase # "" /\ dataArray.isArray /\ dataArray.length = 0) =>
    /\ pc \in {"called", "resolved"}
    /\ pc = "called" => ENABLED MigrateEmpty
    /\ pc = "resolved" =>
         returned = Some([successful |-> <<>>, failed |-> <<>>,
                          summary |-> [total |-> 0, processed |-> 0,
                                       successful |-> 0, failed |-> 0,
                                       percentage |-> 100]])
    /\ thrown = Undefined
    /\ microtasks = <<>>
    /\ onProgressCalls = 0 /\ onErrorCalls = 0
    /\ batchDelays = 0 /\ backoffDelays = 0

\* The call on an empty array has returned, callbacks being configured.
C5_Witness ==
  /\ dataArray.isArray /\ dataArray.length = 0
  /\ pc = "resolved"
  /\ options.onProgress = "returns" /\ options.onError = "returns"

\* C6: once the pre-flight checks have passed the call never rejects, it
\* can always take a step until it has resolved with the result, and every
\* item whose attempts all failed is recorded exactly once in result.failed;
\* callbacks that throw change none of this.
C6_NeverRejectsAfterPreflight ==
  (config.passphrase # "" /\ dataArray.isArray) =>
    /\ pc # "rejected"
    /\ thrown = Undefined
    /\ pc # "resolved" => CanStep
    /\ pc = "resolved" =>
         /\ returned # Undefined
         /\ \A j \in Items :
              Exhausted(j) =>
                LET IsJ(r) == r.item = j IN
                Occurrences(returned[1].failed, IsJ) = 1

\* A run has resolved in which an item exhausted its retries and both
\* callbacks threw.
C6_Witness ==
  /\ pc = "resolved"
  /\ \E j \in Items : Exhausted(j) /\ attempt[j] = 2
  /\ options.onError = "throws" /\ options.onProgress = "throws"
  /\ consoleErrors >= 2

\* C7: with a non-array input or without a passphrase the call rejects in
\* its first step with a CipherionError of status 400; no remote call is
\* made, no callback invoked, no timer started.
C7_PreflightFailsFast ==
  (config.passphrase = "" \/ ~dataArray.isArray) =>
    /\ pc \in {"called", "rejected"}
    /\ pc = "called" => ENABLED MigrateRejects
    /\ pc = "rejected" => (thrown # Undefined /\ thrown[1].statusCode = 400)
    /\ returned = Undefined
    /\ \A j \in Items : calls[j] = 0 /\ stage[j] = "idle"
    /\ microtasks = <<>>
    /\ onProgressCalls = 0 /\ onErrorCalls = 0
    /\ batchDelays = 0 /\ backoffDelays = 0

\* A call on an array of items has been rejected for the missing passphrase.
C7_Witness ==
  /\ pc = "rejected"
  /\ config.passphrase = ""
  /\ dataArray.isArray /\ dataArray.length = MaxItems
  /\ thrown[1].statusCode = 400

\* C8: when an item of a batch has been dispatched, every item of every
\* earlier batch has settled, its handlers and callbacks have run and its
\* outcome is counted.
C8_BatchBarrier ==
  \A k \in Items :
    stage[k] # "idle" =>
      /\ \A j \in Items : BatchIndex(j) < BatchIndex(k) => stage[j] = "done"
      /\ result.summary.processed >= BatchIndex(k) * safeBatchSize(options)
      /\ result.summary.successful + result.summary.failed
           >= BatchIndex(k) * safeBatchSize(options)

\* The second batch of two items has been dispatched after a first batch in
\* which an item was retried and onProgress ran.
C8_Witness ==
  /\ safeBatchSize(options) = 2
  /\ \E k \in Items : BatchIndex(k) = 1 /\ stage[k] = "calling"
  /\ backoffDelays >= 1
  /\ onProgressCalls >= 2

\* C9: the items in flight (dispatched, chain not settled, an item in a
\* retry backoff included) are at most safeBatchSize and belong to one batch.
C9_InFlightBounded ==
  /\ Cardinality(InFlight) <= safeBatchSize(options)
  /\ \A j, k \in InFlight : BatchIndex(j) = BatchIndex(k)

\* Two items of one batch are in flight, one of them in its retry backoff,
\* and more items wait for a later batch.
C9_Witness ==
  /\ Cardinality(InFlight) = 2
  /\ safeBatchSize(options) = 2
  /\ \E j \in InFlight : stage[j] = "backoff"
  /\ \E k \in Items : stage[k] = "idle"

\* C10: whenever the scheduler waits for a batch, and whenever any item of
\* a batch has been dispatched, the first call of every item of that batch
\* has been made.
C10_WholeBatchDispatched ==
  /\ pc = "awaitBatch" =>
       \A j \in Items :
         (i < j /\ j <= i + safeBatchSize(options)) => calls[j] >= 1
  /\ \A j, k \in Items :
       (BatchIndex(j) = BatchIndex(k) /\ stage[j] # "idle") => calls[k] >= 1

\* A batch of two has just been dispatched: both first calls are pending
\* and nothing has settled.
C10_Witness ==
  /\ pc = "awaitBatch"
  /\ i = 0
  /\ safeBatchSize(options) = 2
  /\ dataArray.length = MaxItems
  /\ stage[1] = "calling" /\ stage[2] = "calling"
  /\ calls[1] = 1 /\ calls[2] = 1
  /\ microtasks = <<>>

\* ceil(n / b).
CeilDiv(n, b) == (n + b - 1) \div b

\* C11: the batches dispatched are consecutive runs of positions in input
\* order, the first starting at the first item and each starting right after
\* the one before; every batch but the last of the ceil(n / b) has exactly b
\* items and the last has 1..b; when the run has returned there are
\* ceil(n / b) batches and every item is in exactly one.
C11_ConsecutiveSlices ==
  LET b == safeBatchSize(options)
      n == dataArray.length
      B == CeilDiv(n, b)
  IN /\ Len(slices) <= B
     /\ \A k \in 1..Len(slices) :
          /\ slices[k] # {}
          /\ slices[k] = First(slices[k]) .. Last(slices[k])
          /\ slices[k] \subseteq Items
          /\ First(slices[k]) = IF k = 1 THEN 1 ELSE Last(slices[k - 1]) + 1
          /\ k < B => Cardinality(slices[k]) = b
          /\ k = B => Cardinality(slices[k]) \in 1..b
     /\ (pc = "resolved" /\ n > 0) =>
          /\ Len(slices) = B
          /\ \A j \in Items :
               Cardinality({k \in 1..Len(slices) : j \in slices[k]}) = 1

\* 25 items with batchSize 10 have been migrated in batches of 10, 10 and 5.
C11_Witness ==
  /\ pc = "resolved"
  /\ dataArray.length = 25
  /\ options.batchSize = Some(10)
  /\ Len(slices) = 3
  /\ Cardinality(slices[1]) = 10
  /\ Cardinality(slices[2]) = 10
  /\ Cardinality(slices[3]) = 5

\* The inter-batch delay the options ask for: delayBetweenBatches, 1000 when
\* it is omitted, 0 when it is negative.
RequestedDelay ==
  IF options.delayBetweenBatches = Undefined THEN 1000
  ELSE IF options.delayBetweenBatches[1] < 0 THEN 0
  ELSE options.delayBetweenBatches[1]

\* C12, as stated: a run that has returned after B batches has taken exactly
\* B - 1 inter-batch delays, each of the requested length.
C12_DelayAfterEachNonFinalBatch ==
  (pc = "resolved" /\ dataArray.length > 0) =>
    /\ Len(batchTimers) = CeilDiv(dataArray.length, safeBatchSize(options)) - 1
    /\ \A k \in 1..Len(batchTimers) : batchTimers[k] = RequestedDelay

\* C12, amended: when the requested delay is positive, one inter-batch delay
\* of that length is taken after each batch but the last (B - 1 in a run of
\* B batches), and the next batch is dispatched only when it has elapsed;
\* when it is 0 or negative no inter-batch delay is taken at all.
C12_DelayAfterEachNonFinalBatchWhenPositive ==
  LET B == CeilDiv(dataArray.length, safeBatchSize(options)) IN
  /\ \A k \in 1..Len(batchTimers) : batchTimers[k] = RequestedDelay
  /\ batchDelays = Len(batchTimers)
  /\ RequestedDelay = 0 => (batchTimers = <<>> /\ pc # "delay")
  /\ (RequestedDelay > 0 /\ pc = "delay") =>
       /\ Len(batchTimers) = Len(slices)
       /\ Len(slices) < B
  /\ (RequestedDelay > 0 /\ pc = "awaitBatch") =>
       Len(batchTimers) = Len(slices) - 1
  /\ (RequestedDelay > 0 /\ pc = "resolved" /\ dataArray.length > 0) =>
       Len(batchTimers) = B - 1

\* 25 items with batchSize 10 have been migrated with two delays of 50 ms.
C12_Witness ==
  /\ pc = "resolved"
  /\ dataArray.length = 25
  /\ options.batchSize = Some(10)
  /\ batchTimers = <<50, 50>>

\* The batch size the options ask for, clamped to 1..100: 10 when batchSize
\* is omitted, 1 for 0 and for negative values, 100 for values above 100,
\* the value itself otherwise.
RequestedBatchSize ==
  IF options.batchSize = Undefined THEN 10
  ELSE IF options.batchSize[1] <= 0 THEN 1
  ELSE IF options.batchSize[1] > 100 THEN 100
  ELSE options.batchSize[1]

\* C13: the batch loop runs with the clamped batch size: its loop variable
\* advances by it from 0, and every batch dispatched has that many items or
\* the items that remain, if fewer.
C13_BatchSizeClamped ==
  /\ pc \in {"awaitBatch", "delay"} => i = (Len(slices) - 1) * RequestedBatchSize
  /\ (pc = "resolved" /\ dataArray.length > 0) =>
       i = Len(slices) * RequestedBatchSize
  /\ \A k \in 1..Len(slices) :
       Cardinality(slices[k]) =
         Min(RequestedBatchSize, dataArray.length - ((k - 1) * RequestedBatchSize))

\* A run with batchSize 500 has returned: the loop variable stopped at 100.
C13_Witness ==
  /\ pc = "resolved"
  /\ options.batchSize = Some(500)
  /\ dataArray.length > 0
  /\ i = 100

\* The retry budget the options ask for, clamped to 1..10: 3 when maxRetries
\* is omitted, 1 for 0 and for negative values, 10 for values above 10, the
\* value itself otherwise.
RequestedRetries ==
  IF options.maxRetries = Undefined THEN 3
  ELSE IF options.maxRetries[1] <= 0 THEN 1
  ELSE IF options.maxRetries[1] > 10 THEN 10
  ELSE options.maxRetries[1]

\* The items whose outcome is known to the run: their chain is past the
\* remote calls, or they are recorded in the result.
Classified ==
  {j \in Items : stage[j] \notin {"idle", "calling", "backoff"}}
    \cup {result.successful[k] : k \in 1..Len(result.successful)}
    \cup {result.failed[k].item : k \in 1..Len(result.failed)}

\* C14: the retry loop runs with the clamped budget: no item is called more
\* often than it allows and an item fails only after that many calls; with
\* maxRetries <= 0 a dispatched item is called exactly once and never waits
\* for a retry; no item is classified without a call.
C14_RetriesClamped ==
  /\ \A j \in Items :
       /\ calls[j] <= RequestedRetries
       /\ j \in Classified => calls[j] >= 1
       /\ (options.maxRetries # Undefined /\ options.maxRetries[1] <= 0
             /\ stage[j] # "idle") =>
            (calls[j] = 1 /\ stage[j] # "backoff")
  /\ \A k \in 1..Len(result.failed) :
       calls[result.failed[k].item] = RequestedRetries

\* A run with maxRetries -2 has returned with an item that failed after its
\* one call.
C14_Witness ==
  /\ pc = "resolved"
  /\ options.maxRetries = Some(-2)
  /\ Len(returned[1].failed) >= 1
  /\ calls[returned[1].failed[1].item] = 1

\* A call of item j has resolved / the retry loop of item j has thrown.
Succeeded(j) ==
  \/ stage[j] \in {"fulfilled", "thenRan"}
  \/ stage[j] \in {"toFinally", "inOnProgress", "done"} /\ lastError[j] < attempt[j]
Failed(j) ==
  \/ stage[j] \in {"rejected", "toCatch", "inOnError"}
  \/ stage[j] \in {"toFinally", "inOnProgress", "done"} /\ lastError[j] = attempt[j]

\* C15: a dispatched item has been called between once and safeRetries
\* times; the calls are numbered by the loop variable, every call before the
\* current one has failed; an item that has succeeded was called exactly as
\* often as the number of its first successful attempt and is not called
\* again; an item that has failed was called exactly safeRetries times.
C15_CallsPerItem ==
  \A j \in Items :
    /\ stage[j] = "idle" => calls[j] = 0
    /\ stage[j] # "idle" =>
         /\ calls[j] \in 1..safeRetries(options)
         /\ calls[j] = attempt[j]
         /\ lastError[j] \in {attempt[j] - 1, attempt[j]}
    /\ Succeeded(j) => (lastError[j] = calls[j] - 1 /\ backoffTimer[j] = Undefined)
    /\ Failed(j) => (calls[j] = safeRetries(options) /\ lastError[j] = calls[j])
    /\ \A k \in 1..Len(result.successful) :
         result.successful[k] = j => Succeeded(j)
    /\ \A k \in 1..Len(result.failed) :
         result.failed[k].item = j => Failed(j)

\* With maxRetries 3 an item whose three attempts failed is in the returned
\* failed list.
C15_Witness ==
  /\ pc = "resolved"
  /\ options.maxRetries = Some(3)
  /\ Len(returned[1].failed) >= 1
  /\ calls[returned[1].failed[1].item] = 3
  /\ backoffDelays = 2

\* With maxRetries 3 an item has succeeded at its second attempt.
C15_WitnessSuccess ==
  /\ pc = "resolved"
  /\ options.maxRetries = Some(3)
  /\ Len(returned[1].successful) >= 1
  /\ calls[returned[1].successful[1]] = 2

\* Comparisons of a delay [whole, gap] = whole - gap * 2^-44 ms with a whole
\* number of ms.
DelayAtLeast(d, ms) == d.whole > ms \/ (d.whole = ms /\ d.gap = 0)
DelayBelow(d, ms) == d.whole < ms \/ (d.whole = ms /\ d.gap > 0)
DelayAtMost(d, ms) == d.whole <= ms

RECURSIVE TotalCalls(_)
TotalCalls(n) == IF n = 0 THEN 0 ELSE calls[n] + TotalCalls(n - 1)

\* What C16 says apart from the upper limit of the wait: an item waits for a
\* retry exactly after a failed attempt a < maxRetries, every call but the
\* first of an item follows such a wait, and an item that has failed waits
\* no more.
BackoffOnlyBetweenAttempts ==
  /\ \A j \in Items :
       /\ stage[j] = "backoff" <=> backoffTimer[j] # Undefined
       /\ stage[j] = "backoff" =>
            /\ attempt[j] < safeRetries(options)
            /\ lastError[j] = attempt[j]
            /\ DelayAtLeast(backoffTimer[j][1], 1000 * attempt[j])
  /\ backoffDelays =
       TotalCalls(dataArray.length)
         - Cardinality({j \in Items : stage[j] # "idle"})
         + Cardinality({j \in Items : stage[j] = "backoff"})

C17_ClassifiedOnce ==
  (pc = "resolved" /\ dataArray.length > 0) =>
    \A j \in Items :
      LET IsJ(v) == v = j
          ItemIsJ(r) == r.item = j
          inSuccessful == Occurrences(returned[1].successful, IsJ)
          inFailed == Occurrences(returned[1].failed, ItemIsJ)
          onErrors == Occurrences(onErrorLog, ItemIsJ)
      IN /\ Succeeded(j) # Failed(j)
         /\ Failed(j) =>
              /\ inFailed = 1 /\ inSuccessful = 0
              /\ onErrors = IF options.onError = "absent" THEN 0 ELSE 1
         /\ Succeeded(j) =>
              /\ inSuccessful = 1 /\ inFailed = 0
              /\ onErrors = 0

\* With one attempt per item, the items at the even indices 0 and 2 have
\* succeeded, the item at the odd index 1 has failed and onError has been
\* invoked once, for it.
C17_Witness ==
  /\ pc = "resolved"
  /\ dataArray.length = 3
  /\ safeRetries(options) = 1
  /\ options.onError = "returns"
  /\ Succeeded(1) /\ Failed(2) /\ Succeeded(3)
  /\ Len(returned[1].successful) = 2
  /\ Len(returned[1].failed) = 1
  /\ Len(onErrorLog) = 1 /\ onErrorLog[1].item = 2

\* C18: every record in failed and every invocation of onError carries the
\* item of the chain and the error of the last call made for that item,
\* which was call number safeRetries; the item has been dispatched in one
\* batch only and is not called again.
C18_LastErrorReported ==
  /\ \A k \in 1..Len(result.failed) :
       LET r == result.failed[k] IN
       /\ r.item \in Items
       /\ r.error = calls[r.item]
       /\ r.error = safeRetries(options)
       /\ Cardinality({b \in 1..Len(slices) : r.item \in slices[b]}) = 1
       /\ stage[r.item] \in {"inOnError", "toFinally", "inOnProgress", "done"}
  /\ \A k \in 1..Len(onErrorLog) :
       /\ onErrorLog[k] \in {result.failed[m] : m \in 1..Len(result.failed)}
       /\ onErrorLog[k].error = calls[onErrorLog[k].item]
  /\ (running # Undefined /\ running[1].callback = "onError") =>
       /\ running[1].error = calls[running[1].item]
       /\ [item |-> running[1].item, error |-> running[1].error]
            = result.failed[Len(result.failed)]

\* An item has failed twice; the run has returned with the second error in
\* its failed record and onError has been invoked with it.
C18_Witness ==
  /\ pc = "resolved"
  /\ \E k \in 1..Len(returned[1].failed) :
       /\ returned[1].failed[k].error = 2
       /\ calls[returned[1].failed[k].item] = 2
       /\ \E m \in 1..Len(onErrorLog) : onErrorLog[m] = returned[1].failed[k]

\* The .then / .catch / .finally handler of item j has run.
ThenRan(j) == Succeeded(j) /\ stage[j] # "fulfilled"
CatchRan(j) == Failed(j) /\ stage[j] \notin {"rejected", "toCatch"}
FinallyRan(j) == stage[j] \in {"inOnProgress", "done"}

\* Every counter of the summary counts the handlers that have run.
CountersMatch ==
  Started =>
    /\ result.summary.total = dataArray.length
    /\ result.summary.successful = Cardinality({j \in Items : ThenRan(j)})
    /\ result.summary.failed = Cardinality({j \in Items : CatchRan(j)})
    /\ result.summary.processed = Cardinality({j \in Items : FinallyRan(j)})
    /\ \A j \in Items : ~(ThenRan(j) /\ CatchRan(j))

\* A step of a run leaves total alone, adds 0 or 1 to each counter and never
\* adds to both successful and failed.
CountersStep ==
  Started =>
    /\ result'.summary.total = result.summary.total
    /\ result'.summary.successful - result.summary.successful \in {0, 1}
    /\ result'.summary.failed - result.summary.failed \in {0, 1}
    /\ result'.summary.processed - result.summary.processed \in {0, 1}
    /\ result'.summary.successful + result'.summary.failed
         - result.summary.successful - result.summary.failed \in {0, 1}

\* C19: in every order in which the calls of a batch settle, every step
\* leaves total alone and adds at most 1 to a counter, and after every step
\* successful counts the .then handlers that have run, failed the .catch
\* handlers, processed the .finally handlers, one of each kind at most per
\* item and never both .then and .catch: no update is lost or made twice.
C19_CountersExact == [][CountersStep /\ CountersMatch']_vars

\* Two items of a batch have settled in the reverse of their input order and
\* both are counted.
C19_Witness ==
  /\ result.successful = <<2, 1>>
  /\ result.summary.successful = 2
  /\ result.summary.processed = 2

\* C20: the result of a run is a function of the outcomes of the items and
\* of the order in which they settled, whatever the callbacks are or do, so
\* runs with callbacks that throw and runs with callbacks that return end
\* with the same result: successful holds the items that succeeded and whose
\* .then handler has run, in the order they settled, failed those that
\* failed and whose .catch handler has run, the counters are their lengths;
\* a run that has returned did not reject, has counted every item as
\* processed, and every exception of a callback was caught and logged.
C20_CallbacksDoNotChangeResult ==
  LET okRan(e) == e.ok /\ ThenRan(e.item)
      failedRan(e) == ~e.ok /\ CatchRan(e.item)
      isOk(e) == e.ok
      okLog == SelectSeq(settleLog, okRan)
      failedLog == SelectSeq(settleLog, failedRan)
  IN /\ \A k \in 1..Len(settleLog) :
          settleLog[k].ok = Succeeded(settleLog[k].item)
     /\ result.successful = [k \in 1..Len(okLog) |-> okLog[k].item]
     /\ [k \in 1..Len(result.failed) |-> result.failed[k].item]
          = [k \in 1..Len(failedLog) |-> failedLog[k].item]
     /\ Started =>
          /\ result.summary.successful = Len(okLog)
          /\ result.summary.failed = Len(failedLog)
     /\ (pc = "resolved" /\ dataArray.length > 0) =>
          /\ thrown = Undefined
          /\ returned = Some(result)
          /\ Len(settleLog) = dataArray.length
          /\ result.summary.successful = Occurrences(settleLog, isOk)
          /\ result.summary.failed = Len(settleLog) - Occurrences(settleLog, isOk)
          /\ result.summary.processed = dataArray.length
          /\ consoleErrors =
               (IF options.onError = "throws" THEN onErrorCalls ELSE 0)
               + (IF options.onProgress = "throws" THEN onProgressCalls ELSE 0)

\* A run in which both callbacks threw at every invocation has returned with
\* a succeeded item after a failed one.
C20_Witness ==
  /\ pc = "resolved"
  /\ options.onError = "throws" /\ options.onProgress = "throws"
  /\ dataArray.length = 3
  /\ Len(settleLog) = 3
  /\ ~settleLog[1].ok /\ settleLog[2].ok
  /\ returned[1].summary.processed = 3
  /\ consoleErrors >= 4

\* C21: a configured onProgress is invoked exactly once per item, after the
\* item has been counted: invocation k sees processed = k and the percentage
\* of k out of total (the nearest whole number to 100 * k / total), every
\* item whose chain has settled has had its invocation, and when the call
\* returns there have been total invocations, the last seeing processed =
\* total.
C21_ProgressPerItem ==
  LET n == Len(onProgressLog) IN
  /\ \A k \in 1..n :
       LET seen == onProgressLog[k].seen IN
       /\ seen.processed = k
       /\ seen.total = dataArray.length
       /\ (200 * k) - seen.total <= 2 * seen.total * seen.percentage
       /\ 2 * seen.total * seen.percentage <= (200 * k) + seen.total
       /\ stage[onProgressLog[k].item] \in {"inOnProgress", "done"}
  /\ \A a, b \in 1..n : onProgressLog[a].item = onProgressLog[b].item => a = b
  /\ (Started /\ options.onProgress # "absent") =>
       /\ \A j \in Items : stage[j] = "done" =>
            \E k \in 1..n : onProgressLog[k].item = j
       /\ pc = "resolved" =>
            /\ n = dataArray.length
            /\ n > 0 => onProgressLog[n].seen.processed = dataArray.length
  /\ options.onProgress = "absent" => n = 0

\* A call with a throwing onProgress has returned after three invocations.
C21_Witness ==
  /\ pc = "resolved"
  /\ options.onProgress = "throws"
  /\ Len(onProgressLog) = 3
  /\ result.summary.failed = 1

\* C22: the value handed to onProgress is a snapshot: what invocation k was
\* given still holds, at any later time, what it held when the callback was
\* entered.
C22_ProgressIsSnapshot ==
  \A k \in 1..Len(onProgressLog) :
    HoldsNow(onProgressLog[k]) = onProgressLog[k].seen

\* The place of an item in a sequence of records about items.
PlaceIn(seq, j) == CHOOSE k \in 1..Len(seq) : seq[k].item = j

\* C23: batches are processed in input order and the result sequences are in
\* completion order: the batches dispatched are consecutive, each wholly
\* before the next; in result.successful and in result.failed no outcome of
\* a later batch precedes one of an earlier batch, and two outcomes stand in
\* the order in which their calls settled.
C23_BatchOrder ==
  LET succ == [k \in 1..Len(result.successful) |->
                 [item |-> result.successful[k]]]
      InOrderOfBatches(seq) ==
        \A a, b \in 1..Len(seq) :
          a < b => /\ BatchIndex(seq[a].item) <= BatchIndex(seq[b].item)
                   /\ PlaceIn(settleLog, seq[a].item) <
                        PlaceIn(settleLog, seq[b].item)
  IN /\ \A a, b \in 1..Len(slices) :
          a < b => \A x \in slices[a], y \in slices[b] : x < y
     /\ \A a \in 1..Len(slices) : \A x \in slices[a] : BatchIndex(x) = a - 1
     /\ \A a, b \in 1..Len(settleLog) :
          a < b => BatchIndex(settleLog[a].item) <= BatchIndex(settleLog[b].item)
     /\ InOrderOfBatches(succ)
     /\ InOrderOfBatches(result.failed)

\* Within the first batch the second item completed before the first, and
\* the third item, of the next batch, after both.
C23_Witness ==
  /\ pc = "resolved"
  /\ safeBatchSize(options) = 2
  /\ returned[1].successful = <<2, 1, 3>>

\* Nothing of the run is pending: every chain has settled, no reaction job is
\* queued, no callback is running, no backoff timer is pending and every
\* inter-batch timer started has fired and dispatched its batch.
Quiet ==
  /\ \A j \in Items : stage[j] = "done" /\ backoffTimer[j] = Undefined
  /\ microtasks = <<>>
  /\ running = Undefined
  /\ batchDelays > 0 => Len(slices) = batchDelays + 1
  /\ Len(batchTimers) = batchDelays

\* C24: when every remote call settles and every timer fires, a migration
\* eventually returns (or rejects at the pre-flight checks), and whenever
\* it has returned every item of the input has settled and nothing is
\* pending.
C24_ReturnsWhenQuiet ==
  /\ <>(pc \in {"resolved", "rejected"})
  /\ [](pc = "resolved" => Quiet /\ i >= dataArray.length)

\* A run with a retry and an inter-batch delay has returned.
C24_Witness ==
  /\ pc = "resolved"
  /\ dataArray.length = 2
  /\ backoffDelays > 0
  /\ batchDelays > 0
  /\ Quiet

\* The credentials the client holds and has sent are those it was
\* constructed with.
CredentialsKept ==
  /\ config.apiKey = initialized[1].apiKey
  /\ config.passphrase = initialized[1].passphrase
  /\ httpClient[1].apiKey = initialized[1].apiKey
  /\ \A k \in 1..Len(requests) :
       /\ requests[k].apiKey = initialized[1].apiKey
       /\ requests[k].passphrase = initialized[1].passphrase

\* The last call was an updateConfig that threw a CipherionError with status
\* 403 and left the configuration as it was.
UpdateRefused ==
  /\ lastCall[1].thrown # Undefined
  /\ lastCall[1].thrown[1].statusCode = 403
  /\ config = lastCall[1].configBefore

\* C25 as stated: after any updateConfig calls the client's apiKey and
\* passphrase are the ones it was constructed with, and an updateConfig call
\* whose argument has an apiKey or a passphrase fails with status 403 and
\* changes no configuration field.
C25_CredentialsLocked ==
  client # Undefined =>
    /\ CredentialsKept
    /\ (/\ lastCall[1].method = "updateConfig"
        /\ \/ lastCall[1].argument.apiKey # Undefined
           \/ lastCall[1].argument.passphrase # Undefined)
       => UpdateRefused

\* C25, amended: the credentials are the ones the client was constructed
\* with, and an updateConfig call whose argument has an apiKey or a
\* passphrase that is not empty fails with status 403 and changes no
\* configuration field.
C25_NonEmptyCredentialsLocked ==
  client # Undefined =>
    /\ CredentialsKept
    /\ (/\ lastCall[1].method = "updateConfig"
        /\ \/ ~Falsy(lastCall[1].argument.apiKey)
           \/ ~Falsy(lastCall[1].argument.passphrase))
       => UpdateRefused

\* After an update of the timeout, an update with a new API key was refused
\* and a request was sent with the first key.
C25_Witness ==
  /\ client # Undefined
  /\ lastCall[1].method = "updateConfig"
  /\ lastCall[1].argument.apiKey = Some("key_2")
  /\ lastCall[1].argument.timeout = Undefined
  /\ UpdateRefused
  /\ config.timeout = 100
  /\ Len(requests) = 1

\* C26: a call of encrypt or deepEncrypt with data that is null or
\* undefined, with no passphrase configured or with a configured passphrase
\* of fewer than 12 characters rejects with a CipherionError and sends no
\* request; every request that was sent carried data and a passphrase that
\* pass the checks.
C26_ValidationBeforeRequest ==
  /\ \A k \in 1..Len(requests) :
       /\ requests[k].data.type \notin {"null", "undefined"}
       /\ Len(requests[k].passphrase) >= 12
  /\ (lastCall # Undefined /\ lastCall[1].method \in {"encrypt", "deepEncrypt"})
       => LET call == lastCall[1] IN
          (\/ call.argument.type \in {"null", "undefined"}
           \/ call.configBefore.passphrase = ""
           \/ Len(call.configBefore.passphrase) < 12)
            => /\ call.thrown # Undefined
               /\ call.thrown[1].statusCode \in {400, 500}
               /\ Len(requests) = call.requestsBefore
               /\ pendingPost = Undefined

\* deepEncrypt of a string on a client whose passphrase has 5 characters was
\* rejected and nothing was sent.
C26_Witness ==
  /\ lastCall # Undefined
  /\ lastCall[1].method = "deepEncrypt"
  /\ lastCall[1].argument.type = "string"
  /\ config.passphrase = "short"
  /\ lastCall[1].thrown # Undefined
  /\ requests = <<>>

\* The value the constructor resolves a field to: the explicit value, else
\* the environment variable, else the empty string.
Resolved(explicit, variable) ==
  IF explicit # Undefined /\ explicit[1] # "" THEN explicit[1]
  ELSE IF variable # Undefined /\ variable[1] # "" THEN variable[1]
  ELSE ""

C28_OneCallPerBatch ==
  (/\ pc = "resolved"
   /\ dataArray.length > 0
   /\ \A j \in Items : lastError[j] = 0)
    => TotalCalls(dataArray.length) =
         CeilDiv(dataArray.length, safeBatchSize(options))

OwnResult(res, len, stg) ==
  LET succ == {res.successful[k] : k \in 1..Len(res.successful)}
      fail == {res.failed[k].item : k \in 1..Len(res.failed)}
      past == {"toFinally", "inOnProgress", "done"}
  IN /\ res.summary.total = len
     /\ res.summary.processed = Cardinality({j \in 1..len : stg[j] = "done"})
     /\ res.summary.successful = Len(res.successful)
     /\ res.summary.failed = Len(res.failed)
     /\ Cardinality(succ) = Len(res.successful)
     /\ Cardinality(fail) = Len(res.failed)
     /\ succ \cap fail = {}
     /\ succ \cup fail \subseteq {j \in 1..len : stg[j] \in past \cup {"thenRan"}}
     /\ {j \in 1..len : stg[j] \in past} \subseteq succ \cup fail

\* C30: two migrations on one client do not interfere.  At every moment the
\* result of each of the two calls is the result of its own items, and a
\* call that has returned has returned its own result, with processed = its
\* own total.
C30_RunsDoNotInterfere ==
  /\ Started => OwnResult(result, dataArray.length, stage)
  /\ other.pc \in {"awaitBatch", "delay", "resolved"} =>
       OwnResult(other.result, other.dataArray.length, other.stage)
  /\ pc = "resolved" =>
       /\ returned[1] = result
       /\ returned[1].summary.processed = dataArray.length
  /\ other.pc = "resolved" =>
       /\ other.returned[1] = other.result
       /\ other.returned[1].summary.processed = other.dataArray.length

\* Both calls are under way, on inputs of different lengths, and each has
\* counted an item.
C30_Witness ==
  /\ pc = "awaitBatch"
  /\ other.pc = "awaitBatch"
  /\ dataArray.length # other.dataArray.length
  /\ result.summary.processed = 1
  /\ other.result.summary.failed = 1

\* C32: in every state of a run, between any two handlers and while a
\* callback is running, successful holds as many values as
\* summary.successful counts and failed as many records as summary.failed
\* counts; the same holds of the result the call returned.
C32_SequencesMatchCounters ==
  /\ Len(result.successful) = result.summary.successful
  /\ Len(result.failed) = result.summary.failed
  /\ pc = "resolved" =>
       /\ Len(returned[1].successful) = returned[1].summary.successful
       /\ Len(returned[1].failed) = returned[1].summary.failed

\* onError is running for the second failure of a run in which an item has
\* succeeded, too.
C32_Witness ==
  /\ running # Undefined
  /\ running[1].callback = "onError"
  /\ Len(result.failed) = 2
  /\ Len(result.successful) = 1

\* The step is an invocation of onError: the failure it reports has been
\* recorded in failed and counted, the item is not counted as processed and
\* onProgress has not been invoked for it.
OnErrorInvoked ==
  onErrorLog' # onErrorLog =>
    LET e == onErrorLog'[Len(onErrorLog')] IN
    /\ Len(onErrorLog') = Len(onErrorLog) + 1
    /\ \E k \in 1..Len(result'.failed) : result'.failed[k] = e
    /\ result'.summary.failed = Len(result'.failed)
    /\ stage'[e.item] = "inOnError"
    /\ result'.summary.processed
         = Cardinality({j \in Items \ {e.item} : stage'[j] \in {"inOnProgress", "done"}})
    /\ \A k \in 1..Len(onProgressLog') : onProgressLog'[k].item # e.item

\* The step is an invocation of onProgress: if the item has failed and
\* onError is given, onError has been invoked for the item and has ended.
OnProgressInvoked ==
  onProgressLog' # onProgressLog =>
    LET g == onProgressLog'[Len(onProgressLog')] IN
    (Failed(g.item) /\ options.onError # "absent") =>
      /\ running = Undefined
      /\ Cardinality({k \in 1..Len(onErrorLog) : onErrorLog[k].item = g.item}) = 1
      /\ onErrorLog' = onErrorLog

\* C33: onError for a failed item is invoked after the item has been
\* appended to failed and counted in summary.failed, and before the
\* onProgress invocation that counts the item as processed; no onError
\* follows the onProgress of its item.
C33_OnErrorBeforeOnProgress == [][OnErrorInvoked /\ OnProgressInvoked]_vars

\* onProgress is running for an item that failed and for which onError has
\* been invoked.
C33_Witness ==
  /\ running # Undefined
  /\ running[1].callback = "onProgress"
  /\ Failed(running[1].item)
  /\ \E k \in 1..Len(onErrorLog) : onErrorLog[k].item = running[1].item

\* Every call made for an item has been given the exclusionOptions of the
\* migration's options.
ExclusionOptionsForwarded ==
  \A j \in Items :
    /\ Len(callLog[j]) = calls[j]
    /\ \A k \in 1..Len(callLog[j]) : callLog[j][k] = options.exclusionOptions

\* C31: every call of the remote operation, first attempts and retries
\* alike, is given the exclusionOptions of the migration's options as they
\* were given, and no step of the migration changes the options.
C31_ExclusionOptionsForwarded ==
  [][options' = options /\ ExclusionOptionsForwarded']_vars

\* An item has been called three times, each time with the exclusion options
\* the migration was given.
C31_Witness ==
  \E j \in Items :
    /\ options.exclusionOptions # Undefined
    /\ Len(callLog[j]) = 3
    /\ callLog[j][3] = options.exclusionOptions
    /\ callLog[j][3][1].exclude_fields = <<"profile.id">>

\* A step in which a call made for an item fails: whatever it failed with,
\* the backoff wait for the next attempt is started when attempts remain,
\* and the failure is reported only after attempt number safeRetries.
RetriedWhateverFails ==
  \A j \in Items :
    (failedWith'[j] # failedWith[j] \/ lastError'[j] # lastError[j]) =>
      /\ failedWith'[j] # Undefined
      /\ IF attempt[j] < safeRetries(options)
         THEN /\ stage'[j] = "backoff"
              /\ backoffTimer'[j] # Undefined
              /\ backoffDelays' = backoffDelays + 1
         ELSE /\ stage'[j] = "rejected"
              /\ calls[j] = safeRetries(options)

\* An item is reported as failed only after safeRetries calls, whether what
\* its calls failed with is retryable or not.
FailedAfterAllAttempts ==
  \A j \in Items :
    Failed(j) =>
      /\ calls[j] = safeRetries(options)
      /\ failedWith[j] # Undefined

\* C34: the Item Processor retries after every kind of failure, retryable
\* according to CipherionError.isRetryable or not: a failed call with
\* attempts remaining is followed by the backoff wait and the next attempt,
\* and an item is reported as failed only after maxRetries attempts.
C34_RetriesWhateverTheError ==
  [][RetriedWhateverFails /\ FailedAfterAllAttempts']_vars

\* Every call of an item has failed with status 400, which is not retryable:
\* the item has been called three times, with two backoff waits, and is in
\* failed.
C34_Witness ==
  /\ pc = "resolved"
  /\ faults = {400}
  /\ \E j \in Items :
       /\ failedWith[j] = Some(400)
       /\ ~isRetryable(failedWith[j][1])
       /\ calls[j] = 3
       /\ \E k \in 1..Len(returned[1].failed) : returned[1].failed[k].item = j
  /\ backoffDelays >= 2

\* C35: when encrypt or deepEncrypt fails because of a CipherionError, a
\* failed check of the client (400) or an error of the HTTP layer with the
\* status of the response, the CipherionError the method throws carries the
\* statusCode of that error.
C35_StatusCodeKept ==
  (/\ lastCall # Undefined
   /\ lastCall[1].method \in {"encrypt", "deepEncrypt"}
   /\ lastCall[1].thrown # Undefined)
    => lastCall[1].thrown[1].statusCode = lastCall[1].underlying[1].statusCode

\* C36: updateConfig is all-or-nothing: after an updateConfig call that
\* threw, the configuration is what it was before the call, and the base
\* URL and the timeout of the configuration are always those the HTTP
\* client was built with.
C36_UpdateAllOrNothing ==
  /\ (/\ lastCall # Undefined
      /\ lastCall[1].method = "updateConfig"
      /\ lastCall[1].thrown # Undefined)
       => config = lastCall[1].configBefore
  /\ client # Undefined =>
       /\ httpClient[1].baseUrl = config.baseUrl
       /\ httpClient[1].timeout = config.timeout

\* The sends of the post of send k that came before it.
EarlierSends(k) == {j \in 1..(k - 1) : sendLog[j].post = sendLog[k].post}

\* The request of send k was not answered with a response axios resolves.
SendFailed(k) ==
  /\ sendLog[k].answer # Undefined
  /\ ~(sendLog[k].answer[1].kind = "response"
       /\ validateStatus(sendLog[k].answer[1].status))

\* After its answer the request of send k was sent again, or is about to be.
Retried(k) ==
  \/ k < Len(sendLog) /\ sendLog[k + 1].post = sendLog[k].post
  \/ k = Len(sendLog) /\ postAt = "sleeping"

\* C37: one post call sends its request at most MAX_RETRIES + 1 = 4 times:
\* the retry count of a request is the number of times it was sent before
\* (0 for the first send, one more for each retry) and never passes 3; no
\* retry delay is slept at retry count 3; a request that failed at retry
\* count 3 is not sent again, and its post throws a CipherionError with
\* the status of that failure.
C37_AtMostFourSends ==
  /\ \A k \in DOMAIN sendLog :
       /\ sendLog[k].retryCount = Cardinality(EarlierSends(k))
       /\ sendLog[k].retryCount <= MAX_RETRIES
       /\ Cardinality(EarlierSends(k)) + 1 <= MAX_RETRIES + 1
       /\ (SendFailed(k) /\ sendLog[k].retryCount = MAX_RETRIES)
            => /\ ~Retried(k)
               /\ (k = Len(sendLog) /\ sendLog[k].post = postCount) =>
                    /\ postAt = "thrown"
                    /\ postOutcome # Undefined
                    /\ postOutcome[1].threw # Undefined
                    /\ postOutcome[1].threw[1].statusCode
                         = sendLog[k].answer[1].status
  /\ \A k \in DOMAIN sleepLog : sleepLog[k].retryCount < MAX_RETRIES

\* A post call that threw the network error after four sends.
C37_Witness ==
  /\ postAt = "thrown"
  /\ Len(sendLog) = MAX_RETRIES + 1
  /\ sendLog[Len(sendLog)].retryCount = MAX_RETRIES
  /\ Len(sleepLog) = MAX_RETRIES
  /\ postOutcome[1].threw[1].statusCode = 0

\* The errors the claim calls retryable, as answers of the server: no answer
\* (a network error, status 0), HTTP 429 and HTTP 5xx.
RetryableAnswer(answer) ==
  \/ answer.kind = "none"
  \/ answer.status = 429
  \/ (answer.status >= 500 /\ answer.status < 600)

\* C38: a request answered with a retryable error (no answer, HTTP 429,
\* HTTP 5xx) is sent again unless it has been retried 3 times already, and
\* a request answered with anything else is never sent again.
C38_RetryableErrorsRetried ==
  \A k \in DOMAIN sendLog :
    sendLog[k].answer # Undefined =>
      IF RetryableAnswer(sendLog[k].answer[1])
      THEN Retried(k) \/ sendLog[k].retryCount = MAX_RETRIES
      ELSE ~Retried(k)

\* base <= d <= base + JitterRange for a delay d that need not be whole.
DelayWithin(d, base) ==
  /\ d.gap >= 0
  /\ d.whole > base \/ (d.whole = base /\ d.gap = 0)
  /\ d.whole <= base + RetryJitterRange

\* d <= RetryDelayCap.
DelayCapped(d) == d.whole <= RetryDelayCap

\* C39: the delay slept before retry r + 1 (at retry count r) is
\* 1000 * 2^r ms plus a jitter of at most 500 ms, so its least value doubles
\* with each retry of a post; the delay computed for any retry count is
\* never above 10000 ms, and it is 10000 ms once 1000 * 2^r reaches that.
C39_RetryDelay ==
  /\ \A k \in DOMAIN sleepLog :
       /\ DelayWithin(sleepLog[k].delay, RETRY_DELAY_MS * (2^sleepLog[k].retryCount))
       /\ DelayCapped(sleepLog[k].delay)
       /\ sleepLog[k].retryCount
            = Cardinality({j \in 1..(k - 1) : sleepLog[j].post = sleepLog[k].post})
  /\ \A r \in 0..MaxRetryCount : \A jitter \in RetryJitters :
       /\ DelayCapped(calculateRetryDelay(r, jitter))
       /\ IF RETRY_DELAY_MS * (2^r) >= RetryDelayCap
          THEN calculateRetryDelay(r, jitter) = Ms(RetryDelayCap)
          ELSE DelayWithin(calculateRetryDelay(r, jitter), RETRY_DELAY_MS * (2^r))

\* Three delays were slept for one post, the third of 4000 ms or more.
C39_Witness ==
  /\ Len(sleepLog) = MAX_RETRIES
  /\ sleepLog[MAX_RETRIES].retryCount = MAX_RETRIES - 1
  /\ sleepLog[MAX_RETRIES].delay.whole >= RETRY_DELAY_MS * 4
  /\ postAt \in {"sleeping", "inFlight", "thrown", "returned"}

====
